---- MODULE Spec2Model ----
(***************************************************************************)
(* Audio feature extraction and onset detection of the audio-reactive      *)
(* player: the band aggregator (avg), the half-wave rectified spectral     *)
(* flux (bandFlux, plain and low-bin weighted), JourneyScene's             *)
(* cooldown-gated onset detector with its tempo estimator, ripple pool    *)
(* and resize handler, and BelieverScene's z-score "intense beat"          *)
(* detector.                                                               *)
(*                                                                         *)
(* Numbers.  The code computes in IEEE doubles; the model uses             *)
(*   - exact rationals [num, den] for avg and bandFlux,                    *)
(*   - fixed point for the per-tick state: band energies and envelopes in  *)
(*     millionths (Scale), times in whole milliseconds, the cooldown in    *)
(*     hundredths of a millisecond, the tempo in hundredths of a BPM.      *)
(* Sequences are 1-based: bin i of the code is element i + 1.              *)
(***************************************************************************)
EXTENDS Integers, Sequences, FiniteSets, TLC

VARIABLES
    \* ---- pure-function harness (avg, bandFlux) ----
    pArr, pPrev, pS, pE, pOp, pOut, pArr0, pReads,
    \* ---- JourneyScene fields ----
    now, lastNow, bassEma, midEma, highEma, prevBass, prevMid, prevHigh,
    cooldown, beatIntervals, lastBeatTime, bpmEstimate, bpmConfidence,
    pool, live, a_t0, a_dur, a_rmax, a_center, a_col, view,
    \* ---- JourneyScene observations of the last tick (history variables) ----
    ticks, fired, cdCounted, trig, bpmBefore, lastFire, prevFire,
    rampTick, firstBeat, tObs, rObs,
    \* ---- BelieverScene fields ----
    bNow, prevSpectrum, fluxHistory, bLastBeatTime, intenseBeatEnv, bView,
    \* ---- BelieverScene observations (history variables) ----
    bTicks, bFired, bObs, bPrevBeatAt, fluxLog,
    \* ---- the 2D fallback scene of SceneView: its particles, the canvas's
    \*      client size, and an observation of the last operation ----
    particles, canvas2D, eObs,
    \* ---- DataView's lens state and an observation of the last operation ----
    lens, is3DMode, lObs,
    \* ---- the flow-field BelieverScene: its fields and an observation of the
    \*      last frame ----
    bFlow,
    \* ---- the browser as the scenes see it: pending animation-frame requests,
    \*      registered listeners, and what has been delivered ----
    host,
    \* ---- the last event delivered to a scene and the scene's fields before
    \*      it (history variable) ----
    sObs,
    \* ---- the display's refresh period in ms, where a run fixes it (0: frames
    \*      come at arbitrary times) ----
    framePeriod

pVars == <<pArr, pPrev, pS, pE, pOp, pOut, pArr0, pReads>>
jFields == <<now, lastNow, bassEma, midEma, highEma, prevBass, prevMid, prevHigh,
             cooldown, beatIntervals, lastBeatTime, bpmEstimate, bpmConfidence,
             pool, live, a_t0, a_dur, a_rmax, a_center, a_col, view>>
jObs == <<ticks, fired, cdCounted, trig, bpmBefore, lastFire, prevFire,
          rampTick, firstBeat, tObs, rObs>>
jVars == <<jFields, jObs>>
bFields == <<bNow, prevSpectrum, fluxHistory, bLastBeatTime, intenseBeatEnv, bView>>
bObsVars == <<bTicks, bFired, bObs, bPrevBeatAt, fluxLog>>
bVars == <<bFields, bObsVars>>
eVars == <<particles, canvas2D, eObs>>
lVars == <<lens, is3DMode, lObs>>
vars == <<pVars, jVars, bVars, eVars, lVars, bFlow, host, sObs, framePeriod>>

(***************************************************************************)
(* Arithmetic helpers                                                      *)
(***************************************************************************)
Scale == 1000 * 1000

\* the decimal literal a/b of the code, in millionths
Frac(a, b) == (a * Scale) \div b

Min(a, b) == IF a < b THEN a ELSE b
Max(a, b) == IF a > b THEN a ELSE b

Q(n, d) == [num |-> n, den |-> d]

\* exact comparison a/b < c/d of non-negative rationals (b, d > 0) without
\* forming the cross products, which do not fit TLC's 32-bit integers
RECURSIVE LessFrac(_, _, _, _)
LessFrac(a, b, c, d) ==
    LET q1 == a \div b
        q2 == c \div d
        r1 == a % b
        r2 == c % d
    IN  IF q1 # q2 THEN q1 < q2
        ELSE IF r2 = 0 THEN FALSE
        ELSE IF r1 = 0 THEN TRUE
        ELSE LessFrac(d, r2, b, r1)

LessQ(x, y) == LessFrac(x.num, x.den, y.num, y.den)
EqQ(x, y) == ~LessQ(x, y) /\ ~LessQ(y, x)

RECURSIVE SumOver(_, _)
\* sum of f[i] over the finite set S of integers
SumOver(f, S) ==
    IF S = {} THEN 0
    ELSE LET i == CHOOSE x \in S : TRUE IN f[i] + SumOver(f, S \ {i})

(***************************************************************************)
(* Loops over spectrum bins                                                *)
(*                                                                         *)
(* Every loop of the code over bins has the shape                          *)
(*     for (let i = s; i <= e && i < arr.length; i++) acc += term(i)       *)
(* with s >= 0.  It visits the bins s..min(e, length - 1) and adds their   *)
(* terms.  sumBins adds the terms by halving the range, so that evaluation *)
(* depth stays logarithmic in the number of bins.                          *)
(***************************************************************************)
\* last bin the loop visits (below s when it visits none)
lastBin(e, length) == Min(e, length - 1)

\* the values i takes in the loop body: the indices at which arr[i] is read
binsVisited(s, e, length) == s..lastBin(e, length)

RECURSIVE sumBins(_, _, _)
\* sum of term[i] for i in lo..hi
sumBins(term, lo, hi) ==
    IF lo > hi THEN 0
    ELSE IF lo = hi THEN term[lo]
    ELSE LET m == (lo + hi) \div 2
         IN  sumBins(term, lo, m) + sumBins(term, m + 1, hi)

(***************************************************************************)
(* BandAggregator: avg                                                     *)
(***************************************************************************)
\* a loop that stops one bin early (i < e): the mean misses arr[e]
avgOffByOne(arr, s, e) ==
    LET last == lastBin(e - 1, Len(arr))
        n == Max(0, last - s + 1)
        sum == sumBins([i \in s..last |-> arr[i + 1]], s, last)
    IN  IF n # 0 THEN Q(sum, n) ELSE Q(0, 1)

\* let sum = 0, n = 0;
\* for (let i = s; i <= e && i < arr.length; i++) { sum += arr[i]; n++; }
\* return n ? sum / n : 0      (the mean as the rational sum/n)
avg(arr, s, e) ==
    LET last == lastBin(e, Len(arr))
        n == Max(0, last - s + 1)
        sum == sumBins([i \in s..last |-> arr[i + 1]], s, last)
    IN  IF n # 0 THEN Q(sum, n) ELSE Q(0, 1)

(***************************************************************************)
(* Spectral flux: bandFlux, plain and low-bin weighted                     *)
(***************************************************************************)
\* the flux without the "if (d > 0)" test: falling bins subtract
bandFluxUnrectified(cur, prev, s, e) ==
    LET last == lastBin(e, Len(cur))
        term == [i \in s..last |-> cur[i + 1] - prev[i + 1]]
    IN  Q(sumBins(term, s, last), Max(1, e - s + 1))

\* const d = cur[i] - prev[i]; if (d > 0) flux += d
\* The loop keeps i below cur.length only.  prev[i] at or beyond prev.length is
\* undefined, d is then NaN and d > 0 is false: the bin adds nothing.
rectified(cur, prev, i) ==
    IF i < Len(prev) /\ cur[i + 1] - prev[i + 1] > 0
    THEN cur[i + 1] - prev[i + 1] ELSE 0

\* for (let i = s; i <= e && i < cur.length; i++) {
\*   const d = cur[i] - prev[i]; if (d > 0) flux += d; }
\* return flux / Math.max(1, e - s + 1)
bandFlux(cur, prev, s, e) ==
    LET last == lastBin(e, Len(cur))
        term == [i \in s..last |-> rectified(cur, prev, i)]
    IN  Q(sumBins(term, s, last), Max(1, e - s + 1))

\* const w = 1 + (s + (e - i)) / (e - s + 1), as the rational
\* ((e - s + 1) + s + (e - i)) / (e - s + 1)
fluxWeight(s, e, i) == Q((e - s + 1) + s + (e - i), e - s + 1)

\* the weighted flux with |d| in place of the rectified d
bandFluxWeightedAbs(cur, prev, s, e) ==
    LET last == lastBin(e, Len(cur))
        term == [i \in s..last |->
                    LET d == cur[i + 1] - prev[i + 1]
                    IN  (IF d > 0 THEN d ELSE -d) * fluxWeight(s, e, i).num]
    IN  Q(sumBins(term, s, last), Max(1, e - s + 1) * Max(1, e - s + 1))

\* the low-bin weighted variant: if (d > 0) flux += d * w, accumulated in units
\* of 1/(e - s + 1); the loop body runs only when e - s + 1 >= 1
bandFluxWeighted(cur, prev, s, e) ==
    LET last == lastBin(e, Len(cur))
        term == [i \in s..last |-> rectified(cur, prev, i) * fluxWeight(s, e, i).num]
    IN  Q(sumBins(term, s, last), Max(1, e - s + 1) * Max(1, e - s + 1))

(***************************************************************************)
(* Model bounds                                                            *)
(***************************************************************************)
\* longest spectrum of the pure-function harness
MaxLen == 3

\* byte magnitudes the harness draws the current frame from
CurSamples == {0, 100, 255}
\* byte magnitudes it draws the previous frame from (a copy of an earlier frame)
PrevSamples == {0, 100}

SeqsUpTo(S, n) == UNION {[1..k -> S] : k \in 0..n}

(***************************************************************************)
(* Scene constants                                                         *)
(***************************************************************************)
\* an.fftSize = 2048; frequencyBinCount is half of it
fftSize == 2048
frequencyBinCount == fftSize \div 2

\* private maxRipples = 96
maxRipples == 96

\* this.a_t0[i] = 1e9  (never read while the slot is in the pool)
t0Unset == 1000000000

(***************************************************************************)
(* Construction                                                            *)
(***************************************************************************)
\* indices read so far in the current spectrum and in the previous-frame buffer
NoReads == [cur |-> {}, prev |-> {}]

\* the harness when no pure function is under test
PIdle ==
    /\ pArr = <<>> /\ pPrev = <<>> /\ pArr0 = <<>>
    /\ pS = 0 /\ pE = 0 /\ pOp = "none" /\ pOut = Q(0, 1)
    /\ pReads = NoReads

\* times performance.now() may show when a scene is constructed
StartTimes == {1000}

NoFire == [at |-> -1, cd |-> 0, band |-> "none"]
NoTrig == [bass |-> FALSE, mid |-> FALSE, high |-> FALSE]
NoFirst == [tick |-> 0, band |-> "none", value |-> 0]

\* what the last operation (op) did to the ripple pool: spawn attempts and
\* culls so far, spawn attempts since the last cull, whether the last spawn
\* found the pool empty, whether the operation changed a list or an attribute
\* of any slot, how many ripples the last cull returned, whether every
\* ripple live before it had expired, whether the last cull was such a one,
\* and the energy passed to each of the last three spawns that took a slot
\* with the duration and the radius found in the slot after it
NoPoolObs == [op |-> "none", spawns |-> 0, culls |-> 0, sinceCull |-> 0,
              dropped |-> FALSE, changed |-> FALSE, culled |-> 0,
              allExpired |-> FALSE, afterFull |-> FALSE, recent |-> <<>>]

\* const dpr = Math.min(2, window.devicePixelRatio || 1), in thousandths, and
\* the size handed to the renderer: what handleResize sets from the window
handleResize(devicePixelRatio, clientWidth, clientHeight) ==
    [dpr    |-> Min(2000, IF devicePixelRatio = 0 THEN 1000 ELSE devicePixelRatio),
     width  |-> clientWidth,
     height |-> clientHeight]

\* window.devicePixelRatio in thousandths (0: not provided) and the sizes of
\* the canvas's parent explored
PixelRatios == {0, 3000}
ClientSizes == {<<800, 600>>, <<400, 300>>}

\* the colours a_colA, a_colB, a_colC of a slot that was never spawned:
\* [1,1,1] each, written -1 where a spawned slot holds a palette index
white == <<-1, -1, -1>>

\* no renderer
NoView == [dpr |-> 0, width |-> 0, height |-> 0]

\* a beat stream: the gap before its k-th beat is base + step * ((k * k) % mod)
NoStream == [base |-> 0, step |-> 0, mod |-> 1]

\* the tempo state of a scene that has seen no beat
NoTempo == [beatIntervals |-> <<>>, lastBeatTime |-> 0,
            bpmEstimate |-> 0, bpmConfidence |-> 0]

\* what the last operation (op) did to the tempo state: the state before it, whether
\* updateTempo was called, the interval it measured (-1: none, lastBeatTime was
\* 0), whether it recorded it, the estimatedBPM it computed (0: none), and all
\* the intervals recorded so far, oldest first
NoTempoObs == [stream |-> NoStream, op |-> "none", before |-> NoTempo, called |-> FALSE,
               interval |-> -1, recorded |-> FALSE, estimated |-> 0,
               accepted |-> <<>>]

\* JourneyScene field initialisers, constructor and setupRipples
JConstructed ==
    /\ now \in StartTimes
    /\ lastNow = now
    /\ bassEma = 0 /\ midEma = 0 /\ highEma = 0
    /\ prevBass = 0 /\ prevMid = 0 /\ prevHigh = 0
    /\ cooldown = 0
    /\ beatIntervals = <<>>
    /\ lastBeatTime = 0
    /\ bpmEstimate = 12000
    /\ bpmConfidence = 0
    /\ pool = [k \in 1..maxRipples |-> k - 1]
    /\ live = <<>>
    /\ a_t0 = [i \in 0..(maxRipples - 1) |-> t0Unset]
    /\ a_dur = [i \in 0..(maxRipples - 1) |-> 1000]
    /\ a_rmax = [i \in 0..(maxRipples - 1) |-> 0]
    /\ a_center = [i \in 0..(maxRipples - 1) |-> <<999, 999>>]
    /\ a_col = [i \in 0..(maxRipples - 1) |-> white]
    /\ view = handleResize(1000, 800, 600)
    /\ ticks = 0 /\ fired = "none" /\ cdCounted = 0 /\ trig = NoTrig
    /\ bpmBefore = bpmEstimate
    /\ lastFire = NoFire /\ prevFire = NoFire
    /\ rampTick = 0 /\ firstBeat = NoFirst
    /\ rObs = NoPoolObs

\* no JourneyScene has been constructed
JAbsent ==
    /\ now = 0 /\ lastNow = 0
    /\ bassEma = 0 /\ midEma = 0 /\ highEma = 0
    /\ prevBass = 0 /\ prevMid = 0 /\ prevHigh = 0
    /\ cooldown = 0 /\ beatIntervals = <<>> /\ lastBeatTime = 0
    /\ bpmEstimate = 0 /\ bpmConfidence = 0
    /\ pool = <<>> /\ live = <<>>
    /\ a_t0 = <<>> /\ a_dur = <<>> /\ a_rmax = <<>> /\ a_center = <<>>
    /\ a_col = <<>>
    /\ view = NoView
    /\ ticks = 0 /\ fired = "none" /\ cdCounted = 0 /\ trig = NoTrig
    /\ bpmBefore = 0
    /\ lastFire = NoFire /\ prevFire = NoFire
    /\ rampTick = 0 /\ firstBeat = NoFirst
    /\ tObs = NoTempoObs /\ rObs = NoPoolObs

\* BelieverScene.handleResize with the pixel ratio left unclamped
believerResizeUnclamped(devicePixelRatio, clientWidth, clientHeight) ==
    [dpr        |-> IF devicePixelRatio = 0 THEN 1000 ELSE devicePixelRatio,
     width      |-> clientWidth,
     height     |-> clientHeight,
     resolution |-> <<clientWidth, clientHeight>>]

\* BelieverScene.handleResize: dpr = Math.min(window.devicePixelRatio || 1, 2)
\* (in thousandths), renderer.setPixelRatio(dpr), renderer.setSize(w, h) and
\* u_resolution.set(w, h)
believerResize(devicePixelRatio, clientWidth, clientHeight) ==
    [dpr        |-> Min(IF devicePixelRatio = 0 THEN 1000 ELSE devicePixelRatio, 2000),
     width      |-> clientWidth,
     height     |-> clientHeight,
     resolution |-> <<clientWidth, clientHeight>>]

\* the flow-field BelieverScene's handleResize: the ratio is clamped to 2.5
\* and the camera's aspect follows the size
flowResize(devicePixelRatio, clientWidth, clientHeight) ==
    [dpr        |-> Min(IF devicePixelRatio = 0 THEN 1000 ELSE devicePixelRatio, 2500),
     width      |-> clientWidth,
     height     |-> clientHeight,
     aspect     |-> Q(clientWidth, clientHeight),
     resolution |-> <<clientWidth, clientHeight>>]

\* BelieverScene field initialisers and constructor
BInit ==
    /\ bNow \in StartTimes
    /\ prevSpectrum = [k \in 1..frequencyBinCount |-> 0]
    /\ fluxHistory = <<>>
    /\ bLastBeatTime = 0
    /\ intenseBeatEnv = 0
    /\ bView = believerResize(1000, 800, 600)
    /\ bTicks = 0 /\ bFired = FALSE
    /\ bObs = [over |-> FALSE, bass |-> FALSE, gap |-> 0, prev |-> <<>>,
              data |-> <<>>, last |-> <<>>]
    /\ bPrevBeatAt = -1
    /\ fluxLog = <<>>

\* no BelieverScene has been constructed
BAbsent ==
    /\ bNow = 0 /\ prevSpectrum = <<>> /\ fluxHistory = <<>>
    /\ bLastBeatTime = 0 /\ intenseBeatEnv = 0
    /\ bView = NoView
    /\ bTicks = 0 /\ bFired = FALSE
    /\ bObs = [over |-> FALSE, bass |-> FALSE, gap |-> 0, prev |-> <<>>,
              data |-> <<>>, last |-> <<>>]
    /\ bPrevBeatAt = -1
    /\ fluxLog = <<>>

\* what the last operation (op) on the particles did: the target count and the
\* size it was given, the particles before it, and the same for the operation
\* before it; calls counts the operations
NoParticleObs == [op |-> "none", n |-> 0, size |-> <<0, 0>>, before |-> <<>>,
                  prevOp |-> "none", prevN |-> 0, prevSize |-> <<0, 0>>,
                  calls |-> 0]

\* no 2D fallback scene is mounted
EAbsent ==
    /\ particles = <<>>
    /\ canvas2D = <<0, 0>>
    /\ eObs = NoParticleObs

\* no DataView is mounted
LAbsent ==
    /\ lens = <<>>
    /\ is3DMode = FALSE
    /\ lObs = <<>>

\* no flow-field BelieverScene has been constructed
FAbsent == bFlow = <<>>

\* no scene's lifecycle is followed
HAbsent == host = <<>>

\* no event has been delivered
NoSnapshot == [op |-> "none", scene |-> "none", before |-> <<>>]
SAbsent == sObs = NoSnapshot

(***************************************************************************)
(* Pure functions under test                                               *)
(***************************************************************************)
InitPure ==
    /\ pArr \in SeqsUpTo(CurSamples, MaxLen)
    /\ pPrev \in [1..Len(pArr) -> PrevSamples]
    /\ pArr0 = pArr
    /\ pS \in 0..(MaxLen + 1)
    /\ pE \in 0..(MaxLen + 1)
    /\ pOp = "none"
    /\ pOut = Q(0, 1)
    /\ pReads = NoReads
    /\ JAbsent /\ BAbsent /\ framePeriod = 0
    /\ EAbsent /\ LAbsent /\ FAbsent /\ HAbsent /\ SAbsent

CallAvg ==
    /\ pOp = "none"
    /\ pOut' = avg(pArr, pS, pE)
    /\ pOp' = "avg"
    /\ pReads' = [cur |-> binsVisited(pS, pE, Len(pArr)), prev |-> {}]
    /\ UNCHANGED <<pArr, pPrev, pS, pE, pArr0, jVars, bVars, framePeriod, eVars, lVars, bFlow, host, sObs>>

CallBandFlux ==
    /\ pOp = "none"
    /\ pOut' = bandFlux(pArr, pPrev, pS, pE)
    /\ pOp' = "bandFlux"
    /\ pReads' = [cur  |-> binsVisited(pS, pE, Len(pArr)),
                  prev |-> binsVisited(pS, pE, Len(pArr))]
    /\ UNCHANGED <<pArr, pPrev, pS, pE, pArr0, jVars, bVars, framePeriod, eVars, lVars, bFlow, host, sObs>>

CallBandFluxWeighted ==
    /\ pOp = "none"
    /\ pOut' = bandFluxWeighted(pArr, pPrev, pS, pE)
    /\ pOp' = "bandFluxWeighted"
    /\ pReads' = [cur  |-> binsVisited(pS, pE, Len(pArr)),
                  prev |-> binsVisited(pS, pE, Len(pArr))]
    /\ UNCHANGED <<pArr, pPrev, pS, pE, pArr0, jVars, bVars, framePeriod, eVars, lVars, bFlow, host, sObs>>

NextPure == CallAvg \/ CallBandFlux \/ CallBandFluxWeighted

SpecPure == InitPure /\ [][NextPure]_vars

\* bins of the range [s, e] that exist in a spectrum of length n
InRange(s, e, n) == {i \in s..e : i < n}

\* positive part of the frame-to-frame difference at bin i
Rect(cur, prev, i) == Max(0, cur[i + 1] - prev[i + 1])

\* C10: for 0 <= s <= e < length, avg is the arithmetic mean of arr[s..e] and
\* avg / 255 lies in [0, 1]; for s > e, or s and e both >= length, it is exactly
\* 0; the spectrum is left as it was.
C10_AvgIsMean ==
    pOp = "avg" =>
        /\ (pS <= pE /\ pE < Len(pArr)) =>
              /\ EqQ(pOut, Q(SumOver([i \in pS..pE |-> pArr[i + 1]], pS..pE), pE - pS + 1))
              /\ 0 <= pOut.num /\ pOut.num <= 255 * pOut.den
        /\ (pS > pE \/ (pS >= Len(pArr) /\ pE >= Len(pArr))) => pOut = Q(0, 1)
        /\ pArr = pArr0

C10_Witness ==
    /\ pOp = "avg" /\ pS < pE /\ pE < Len(pArr)
    /\ pArr[pS + 1] # pArr[pE + 1]
    /\ pOut.num > 0

\* C7: bandFlux is >= 0, and exactly 0 when no in-range bin rose, in the plain
\* and in the weighted variant.
C7_FluxNonNegative ==
    pOp \in {"bandFlux", "bandFluxWeighted"} =>
        /\ pOut.den > 0
        /\ pOut.num >= 0
        /\ (\A i \in InRange(pS, pE, Len(pArr)) : pArr[i + 1] <= pPrev[i + 1]) => pOut.num = 0

C7_Witness ==
    /\ pOp = "bandFlux" /\ pOut.num = 0
    /\ \E i \in InRange(pS, pE, Len(pArr)) : pArr[i + 1] < pPrev[i + 1]

\* C8: bandFlux is the sum over the in-range bins of max(0, cur[i] - prev[i]),
\* times the bin's weight in the weighted variant, divided by the range length;
\* lowering a bin that is at or below prev[i] changes nothing; the weight is
\* >= 1 and does not increase with the bin index.
C8_FluxIsRectifiedSum ==
    LET bins == InRange(pS, pE, Len(pArr))
        L == Max(1, pE - pS + 1)
        lowered(i, v) == [pArr EXCEPT ![i + 1] = v]
    IN  /\ pOp = "bandFlux" =>
              /\ pOut = Q(SumOver([i \in bins |-> Rect(pArr, pPrev, i)], bins), L)
              /\ \A i \in bins : \A v \in CurSamples :
                    (pArr[i + 1] <= pPrev[i + 1] /\ v < pArr[i + 1]) =>
                        bandFlux(lowered(i, v), pPrev, pS, pE) = pOut
        /\ pOp = "bandFluxWeighted" =>
              /\ pOut = Q(SumOver([i \in bins |->
                                     Rect(pArr, pPrev, i) * fluxWeight(pS, pE, i).num], bins),
                          L * L)
              /\ \A i \in bins : \A v \in CurSamples :
                    (pArr[i + 1] <= pPrev[i + 1] /\ v < pArr[i + 1]) =>
                        bandFluxWeighted(lowered(i, v), pPrev, pS, pE) = pOut
              /\ \A i \in pS..pE :
                    /\ fluxWeight(pS, pE, i).num >= fluxWeight(pS, pE, i).den
                    /\ i < pE => ~LessQ(fluxWeight(pS, pE, i), fluxWeight(pS, pE, i + 1))

C8_Witness ==
    /\ pOp = "bandFluxWeighted" /\ pOut.num > 0
    /\ \E i \in InRange(pS, pE, Len(pArr)) : pArr[i + 1] < pPrev[i + 1]
    /\ \E i \in InRange(pS, pE, Len(pArr)) : pArr[i + 1] > pPrev[i + 1]

(***************************************************************************)
(* Pure functions on buffers of independent lengths: the current spectrum  *)
(* may be shorter or longer than the previous-frame buffer, or empty       *)
(***************************************************************************)
InitLengths ==
    /\ pArr \in SeqsUpTo(CurSamples, MaxLen)
    /\ pPrev \in SeqsUpTo(PrevSamples, MaxLen)
    /\ pArr0 = pArr
    /\ pS \in 0..(MaxLen + 1)
    /\ pE \in 0..(MaxLen + 1)
    /\ pOp = "none"
    /\ pOut = Q(0, 1)
    /\ pReads = NoReads
    /\ JAbsent /\ BAbsent /\ framePeriod = 0
    /\ EAbsent /\ LAbsent /\ FAbsent /\ HAbsent /\ SAbsent

SpecPureLengths == InitLengths /\ [][NextPure]_vars

normalized(q) == ((((q.num * 1000) \div q.den) * 1000) \div 255)

\* const bass = avg(dataArray, 0, 32) / 255; mid = avg(.., 32, 96) / 255;
\* high = avg(.., 96, 200) / 255
journeyBands(data) ==
    [bass |-> normalized(avg(data, 0, 32)),
     mid  |-> normalized(avg(data, 32, 96)),
     high |-> normalized(avg(data, 96, 200))]

\* ema += (value - ema) * smoothing, smoothing = 0.18
emaStep(ema, value) == ema + ((value - ema) * 18) \div 100

\* a duration in ms given as a rational, in hundredths of a ms
toHundredths(q) == (q.num * 100) \div q.den

\* the kick cooldown computed with the divisor of the other bands
kickCooldownQOther(bpm) == Q(60000 * 100 * 2, 9 * bpm)

\* const kickCooldown = (60000 / this.bpmEstimate) / 3.5, in ms as a rational
\* (bpm is in hundredths of a BPM)
kickCooldownQ(bpm) == Q(60000 * 100 * 2, 7 * bpm)

\* const otherCooldown = (60000 / this.bpmEstimate) / 4.5
otherCooldownQ(bpm) == Q(60000 * 100 * 2, 9 * bpm)

\* otherCooldown * 0.7
highCooldownQ(bpm) == Q(60000 * 10 * 2 * 7, 9 * bpm)

kickCooldown(bpm) == toHundredths(kickCooldownQ(bpm))
otherCooldown(bpm) == toHundredths(otherCooldownQ(bpm))
highCooldown(bpm) == toHundredths(highCooldownQ(bpm))

\* if (this.cooldown > 0) this.cooldown -= dtMs
countdown(cd, dtMs) == IF cd > 0 THEN cd - dtMs * 100 ELSE cd

\* bassAccel > 0.04 && bass > 0.15
condition1(bass, bassAccel) == bassAccel > Frac(4, 100) /\ bass > Frac(15, 100)

\* bass > prevBass * 1.15 && bass > 0.18 && bassAccel > 0.015
condition2(bass, pBass, bassAccel) ==
    bass * 100 > pBass * 115 /\ bass > Frac(18, 100) /\ bassAccel > Frac(15, 1000)

\* bass > 0.3 && bassAccel > 0.01 && bass > prevBass
condition3(bass, pBass, bassAccel) ==
    bass > Frac(3, 10) /\ bassAccel > Frac(1, 100) /\ bass > pBass

\* the three conditions joined by && instead of ||
isStrongKickAll(bass, pBass, bassAccel) ==
    condition1(bass, bassAccel) /\ condition2(bass, pBass, bassAccel)
        /\ condition3(bass, pBass, bassAccel)

\* const isStrongKick = condition1 || condition2 || condition3
isStrongKick(bass, pBass, bassAccel) ==
    condition1(bass, bassAccel) \/ condition2(bass, pBass, bassAccel)
        \/ condition3(bass, pBass, bassAccel)

\* (midAccel > 0.04 && mid > 0.12) || (mid > prevMid * 1.25 && mid > 0.15 && midAccel > 0.02)
isMidHit(mid, pMid, midAccel) ==
    \/ midAccel > Frac(4, 100) /\ mid > Frac(12, 100)
    \/ mid * 100 > pMid * 125 /\ mid > Frac(15, 100) /\ midAccel > Frac(2, 100)

\* (highAccel > 0.045 && high > 0.12) || (high > prevHigh * 1.3 && high > 0.15 && highAccel > 0.025)
isHighHit(high, pHigh, highAccel) ==
    \/ highAccel > Frac(45, 1000) /\ high > Frac(12, 100)
    \/ high * 10 > pHigh * 13 /\ high > Frac(15, 100) /\ highAccel > Frac(25, 1000)

\* a detector whose kick branch ignores the cooldown
detectBranchUngated(kick, midHit, highHit, cd) ==
    IF kick THEN "bass"
    ELSE IF cd <= 0 THEN (IF midHit THEN "mid" ELSE "none")
    ELSE "none"

\* a detector whose mid branch is gated by a cooldown of its own (taken as
\* elapsed): it fires while the kick's cooldown is still running
detectBranchPerBand(kick, midHit, highHit, cd) ==
    IF kick /\ cd <= 0 THEN "bass"
    ELSE IF midHit THEN "mid"
    ELSE "none"

\* the if / else if / else if chain of detectAndSpawnRipples: which band fires
detectBranch(kick, midHit, highHit, cd) ==
    IF kick /\ cd <= 0 THEN "bass"
    ELSE IF cd <= 0 THEN (IF midHit THEN "mid" ELSE "none")
    ELSE IF cd <= 0 THEN (IF highHit THEN "high" ELSE "none")
    ELSE "none"

\* energy ^ 4 in millionths, squaring twice
pow4(energy) ==
    LET sq == ((energy \div 100) * (energy \div 100)) \div 100
    IN  ((sq \div 100) * (sq \div 100)) \div 100

\* const rmax = 40 + 700 * Math.pow(energy, 4), in thousandths
rippleRmax(energy) == 40000 + (700 * pow4(energy)) \div 1000

\* const dur = 0.6 + energy * 1.4, in ms
rippleDur(energy) == 600 + (energy * 14) \div 10000

\* values Math.random() may return, in millionths
RandomDraws == {Frac(1, 2)}

\* const base = this.track.palette ?? ['#6bd3ff','#00c2a8','#c9f658']
paletteLength == 3

\* base[Math.floor(Math.random()*base.length)], as the index drawn
paletteIndex(r) == (r * paletteLength) \div Scale

\* a spawn that, finding the pool empty, takes over the newest live slot
spawnRippleRecycle(rs, cx, cy, energy, t, cols) ==
    LET i == IF Len(rs.pool) = 0 THEN rs.live[Len(rs.live)] ELSE rs.pool[Len(rs.pool)]
    IN  [pool   |-> SubSeq(rs.pool, 1, Len(rs.pool) - 1),
         live   |-> Append(rs.live, i),
         t0     |-> [rs.t0 EXCEPT ![i] = t],
         dur    |-> [rs.dur EXCEPT ![i] = rippleDur(energy)],
         rmax   |-> [rs.rmax EXCEPT ![i] = rippleRmax(energy)],
         center |-> [rs.center EXCEPT ![i] = <<cx, cy>>],
         col    |-> [rs.col EXCEPT ![i] = cols]]

\* a spawn without the early return: finding the pool empty it writes the new
\* ripple's attributes into slot 0 and leaves the lists alone
spawnRippleNoReturn(rs, cx, cy, energy, t, cols) ==
    LET empty == Len(rs.pool) = 0
        i == IF empty THEN 0 ELSE rs.pool[Len(rs.pool)]
    IN  [pool   |-> IF empty THEN rs.pool ELSE SubSeq(rs.pool, 1, Len(rs.pool) - 1),
         live   |-> IF empty THEN rs.live ELSE Append(rs.live, i),
         t0     |-> [rs.t0 EXCEPT ![i] = t],
         dur    |-> [rs.dur EXCEPT ![i] = rippleDur(energy)],
         rmax   |-> [rs.rmax EXCEPT ![i] = rippleRmax(energy)],
         center |-> [rs.center EXCEPT ![i] = <<cx, cy>>],
         col    |-> [rs.col EXCEPT ![i] = cols]]

\* spawnRipple(cx, cy, energy) at time t: the ripple arrays after the call
spawnRipple(rs, cx, cy, energy, t, cols) ==
    IF Len(rs.pool) = 0 THEN rs
    ELSE LET i == rs.pool[Len(rs.pool)]
         IN  [pool   |-> SubSeq(rs.pool, 1, Len(rs.pool) - 1),
              live   |-> Append(rs.live, i),
              t0     |-> [rs.t0 EXCEPT ![i] = t],
              dur    |-> [rs.dur EXCEPT ![i] = rippleDur(energy)],
              rmax   |-> [rs.rmax EXCEPT ![i] = rippleRmax(energy)],
              center |-> [rs.center EXCEPT ![i] = <<cx, cy>>],
              col    |-> [rs.col EXCEPT ![i] = cols]]

RemoveAt(s, k) == SubSeq(s, 1, k - 1) \o SubSeq(s, k + 1, Len(s))

RECURSIVE cullLoop(_, _, _)
\* for (let k = live.length - 1; k >= 0; k--) if (nowSec - t0 > dur) { ... }
cullLoop(rs, k, nowT) ==
    IF k < 1 THEN rs
    ELSE LET i == rs.live[k]
         IN  IF nowT - rs.t0[i] > rs.dur[i]
             THEN cullLoop([rs EXCEPT !.center = [rs.center EXCEPT ![i] = <<999, 999>>],
                                      !.pool = Append(rs.pool, i),
                                      !.live = RemoveAt(rs.live, k)],
                           k - 1, nowT)
             ELSE cullLoop(rs, k - 1, nowT)

RECURSIVE cullForward(_, _, _)
\* the loop run forward, for (let k = 0; k < live.length; k++): after a splice
\* the entry that moved into place k is skipped
cullForward(rs, k, nowT) ==
    IF k > Len(rs.live) THEN rs
    ELSE LET i == rs.live[k]
         IN  IF nowT - rs.t0[i] > rs.dur[i]
             THEN cullForward([rs EXCEPT !.center = [rs.center EXCEPT ![i] = <<999, 999>>],
                                         !.pool = Append(rs.pool, i),
                                         !.live = RemoveAt(rs.live, k)],
                              k + 1, nowT)
             ELSE cullForward(rs, k + 1, nowT)

cullRipplesForward(rs, nowT) == cullForward(rs, 1, nowT)

cullRipples(rs, nowT) == cullLoop(rs, Len(rs.live), nowT)

\* const median = sorted[Math.floor(sorted.length / 2)]
medianOf(intervals) ==
    SortSeq(intervals, LAMBDA a, b : a < b)[(Len(intervals) \div 2) + 1]

\* an acceptance test that lets the limits 200 and 2000 through
plausibleInclusive(interval) == interval >= 200 /\ interval <= 2000

\* an acceptance test without limits
plausibleAny(interval) == interval > 0

\* if (interval > 200 && interval < 2000)
plausible(interval) == interval > 200 /\ interval < 2000

\* a history that drops the newest interval (pop) when it is over capacity
pushIntervalDropNewest(intervals, interval) ==
    LET pushed == Append(intervals, interval)
    IN  IF Len(pushed) > 16 THEN SubSeq(pushed, 1, Len(pushed) - 1) ELSE pushed

\* this.beatIntervals.push(interval);
\* if (this.beatIntervals.length > 16) this.beatIntervals.shift();
pushInterval(intervals, interval) ==
    LET pushed == Append(intervals, interval)
    IN  IF Len(pushed) > 16 THEN Tail(pushed) ELSE pushed

\* const estimatedBPM = 60000 / median, in hundredths of a BPM
estimatedBPM(intervals) == (60000 * 100) \div medianOf(intervals)

\* x * 0.1, rounded toward zero
tenth(x) == IF x >= 0 THEN x \div 10 ELSE -((-x) \div 10)

\* an estimate that jumps to the new value
smoothJump(bpm, est) == est

\* this.bpmEstimate += (estimatedBPM - this.bpmEstimate) * 0.1
smooth(bpm, est) == bpm + tenth(est - bpm)

\* Math.min(1, this.beatIntervals.length / 16), in millionths
confidenceOf(n) == Min(Scale, (n * Scale) \div 16)

\* updateTempo(now): the tempo state after the call
\* an estimator that moves lastBeatTime only when it has no beat yet or has
\* recorded the interval
updateTempoKeepOnReject(ts, nowT) ==
    LET interval == nowT - ts.lastBeatTime
        kept == pushInterval(ts.beatIntervals, interval)
    IN  IF ts.lastBeatTime > 0 /\ plausible(interval)
        THEN IF Len(kept) >= 4
             THEN [beatIntervals |-> kept,
                   lastBeatTime  |-> nowT,
                   bpmEstimate   |-> smooth(ts.bpmEstimate, estimatedBPM(kept)),
                   bpmConfidence |-> confidenceOf(Len(kept))]
             ELSE [ts EXCEPT !.beatIntervals = kept, !.lastBeatTime = nowT]
        ELSE IF ts.lastBeatTime > 0 THEN ts
        ELSE [ts EXCEPT !.lastBeatTime = nowT]

updateTempo(ts, nowT) ==
    LET interval == nowT - ts.lastBeatTime
        kept == pushInterval(ts.beatIntervals, interval)
    IN  IF ts.lastBeatTime > 0 /\ plausible(interval)
        THEN IF Len(kept) >= 4
             THEN [beatIntervals |-> kept,
                   lastBeatTime  |-> nowT,
                   bpmEstimate   |-> smooth(ts.bpmEstimate, estimatedBPM(kept)),
                   bpmConfidence |-> confidenceOf(Len(kept))]
             ELSE [ts EXCEPT !.beatIntervals = kept, !.lastBeatTime = nowT]
        ELSE [ts EXCEPT !.lastBeatTime = nowT]

\* a detector that hands the beats of every band to the tempo estimator
tempoAfterAnyBeat(branch, ts, nowT) ==
    IF branch # "none" THEN updateTempo(ts, nowT) ELSE ts

\* this.updateTempo(now) stands in the kick branch only
tempoAfterNever(branch, ts, nowT) == ts

tempoAfter(branch, ts, nowT) ==
    IF branch = "bass" THEN updateTempo(ts, nowT) ELSE ts

\* the observation of a tick that found the tempo state ts and called
\* updateTempo(nowT) (called) or did not
tempoObserved(obs, ts, nowT, called) ==
    LET interval == nowT - ts.lastBeatTime
        recorded == called /\ ts.lastBeatTime > 0 /\ plausible(interval)
        kept == pushInterval(ts.beatIntervals, interval)
    IN  [obs EXCEPT !.before = ts,
                    !.called = called,
                    !.interval = IF called /\ ts.lastBeatTime > 0 THEN interval ELSE -1,
                    !.recorded = recorded,
                    !.estimated = IF recorded /\ Len(kept) >= 4
                                  THEN estimatedBPM(kept) ELSE 0,
                    !.accepted = IF recorded THEN Append(obs.accepted, interval)
                                 ELSE obs.accepted]

\* one animation frame: animate() with the analyser showing bands b, dtMs after
\* the previous frame.  dataArray and prevData are written but never read by
\* the detector and are not part of the state.
animate(b, dtMs) ==
    LET nowN == now + dtMs
        bassEmaN == emaStep(bassEma, b.bass)
        midEmaN == emaStep(midEma, b.mid)
        highEmaN == emaStep(highEma, b.high)
        bassAccel == b.bass - bassEmaN
        midAccel == b.mid - midEmaN
        highAccel == b.high - highEmaN
        cd == countdown(cooldown, dtMs)
        kick == isStrongKick(b.bass, prevBass, bassAccel)
        midHit == isMidHit(b.mid, prevMid, midAccel)
        highHit == isHighHit(b.high, prevHigh, highAccel)
        rs0 == [pool |-> pool, live |-> live, t0 |-> a_t0, dur |-> a_dur,
                rmax |-> a_rmax, center |-> a_center, col |-> a_col]
        ts0 == [beatIntervals |-> beatIntervals, lastBeatTime |-> lastBeatTime,
                bpmEstimate |-> bpmEstimate, bpmConfidence |-> bpmConfidence]
    IN  \E branch \in {detectBranch(kick, midHit, highHit, cd)},
           rx \in RandomDraws, ry \in RandomDraws,
           ra \in RandomDraws, rb \in RandomDraws, rc \in RandomDraws :
          LET energy == CASE branch = "bass" -> b.bass
                          [] branch = "mid"  -> b.mid
                          [] branch = "high" -> b.high
                          [] OTHER -> 0
              \* cx = Math.random() * span - span / 2, span 1.4 / 1.6 / 1.8
              span == CASE branch = "bass" -> 14 [] branch = "mid" -> 16 [] OTHER -> 18
              cx == (rx * span) \div 10 - (span * Scale) \div 20
              cy == (ry * span) \div 10 - (span * Scale) \div 20
              cols == <<paletteIndex(ra), paletteIndex(rb), paletteIndex(rc)>>
              cdN == CASE branch = "bass" -> kickCooldown(bpmEstimate)
                       [] branch = "mid"  -> otherCooldown(bpmEstimate)
                       [] branch = "high" -> highCooldown(bpmEstimate)
                       [] OTHER -> cd
          IN  \E rs2 \in {cullRipples(IF branch = "none" THEN rs0
                                      ELSE spawnRipple(rs0, cx, cy, energy, nowN, cols), nowN)},
                 ts1 \in {tempoAfter(branch, ts0, nowN)} :
              /\ now' = nowN
              /\ lastNow' = nowN
              /\ bassEma' = bassEmaN /\ midEma' = midEmaN /\ highEma' = highEmaN
              /\ cooldown' = cdN
              /\ beatIntervals' = ts1.beatIntervals
              /\ lastBeatTime' = ts1.lastBeatTime
              /\ bpmEstimate' = ts1.bpmEstimate
              /\ bpmConfidence' = ts1.bpmConfidence
              /\ pool' = rs2.pool /\ live' = rs2.live
              /\ a_t0' = rs2.t0 /\ a_dur' = rs2.dur
              /\ a_rmax' = rs2.rmax /\ a_center' = rs2.center
              /\ a_col' = rs2.col
              /\ prevBass' = b.bass /\ prevMid' = b.mid /\ prevHigh' = b.high
              \* observations of this tick
              /\ ticks' = ticks + 1
              /\ fired' = branch
              /\ cdCounted' = cd
              /\ trig' = [bass |-> kick, mid |-> midHit, high |-> highHit]
              /\ bpmBefore' = bpmEstimate
              /\ lastFire' = IF branch = "none" THEN lastFire
                             ELSE [at |-> nowN, cd |-> cdN, band |-> branch]
              /\ prevFire' = IF branch = "none" THEN prevFire ELSE lastFire
              /\ firstBeat' = IF branch # "none" /\ firstBeat.band = "none"
                              THEN [tick |-> ticks + 1, band |-> branch, value |-> energy]
                              ELSE firstBeat
              /\ tObs' = [tempoObserved(tObs, ts0, nowN, branch = "bass")
                             EXCEPT !.op = "tick"]
              /\ view' = view
              /\ rObs' = [rObs EXCEPT !.op = "tick",
                                      !.dropped = (branch # "none" /\ Len(pool) = 0)]

(***************************************************************************)
(* JourneyScene under arbitrary frames                                     *)
(***************************************************************************)
\* number of animation frames explored
MaxTicks == 5

\* frame-to-frame delays in ms explored
Dts == {100, 300}

\* a spectrum whose bins 0..31 hold b, 32..95 hold m, 96..200 hold h
spectrum(b, m, h) ==
    [k \in 1..frequencyBinCount |->
        IF k - 1 < 32 THEN b ELSE IF k - 1 < 96 THEN m ELSE IF k - 1 <= 200 THEN h ELSE 0]

JFrameNames == {"silence", "bassHit", "midHit", "highHit"}

JSpectrumOf ==
    [n \in JFrameNames |->
        CASE n = "silence" -> spectrum(0, 0, 0)
          [] n = "bassHit" -> spectrum(200, 0, 0)
          [] n = "midHit"  -> spectrum(0, 200, 0)
          [] n = "highHit" -> spectrum(0, 0, 200)]

JBandsOf == [n \in JFrameNames |-> journeyBands(JSpectrumOf[n])]

InitJourney ==
    /\ PIdle /\ JConstructed /\ BAbsent /\ framePeriod = 0
    /\ EAbsent /\ LAbsent /\ FAbsent /\ HAbsent /\ SAbsent
    /\ tObs = NoTempoObs

JourneyTick ==
    /\ ticks < MaxTicks
    /\ \E n \in JFrameNames, dt \in Dts : animate(JBandsOf[n], dt)
    /\ UNCHANGED <<framePeriod, eVars, lVars, bFlow, host, sObs, rampTick, pVars, bVars>>

SpecJourney == InitJourney /\ [][JourneyTick]_vars

\* the beat before the one of this tick, or the latest beat if this tick fired none
PriorFire == IF fired # "none" THEN prevFire ELSE lastFire

\* C1: after a beat at t1 that set the cooldown to C, no beat on any band fires
\* at t2 with t2 - t1 < C; a beat fires only on a tick whose counted-down
\* cooldown is <= 0.
C1_NoBeatWithinCooldown ==
    fired # "none" =>
        /\ cdCounted <= 0
        /\ prevFire.at >= 0 => (now - prevFire.at) * 100 >= prevFire.cd

C1_Witness ==
    /\ fired # "none" /\ prevFire.at >= 0
    /\ now - prevFire.at = 200
    /\ prevFire.cd > 10000

\* C3: on a tick whose counted-down cooldown is <= 0 and on which the trigger
\* of bass, mid or high holds, a beat is emitted and the cooldown is set to a
\* positive value.
C3_TriggerFires ==
    (ticks > 0 /\ cdCounted <= 0 /\ (trig.bass \/ trig.mid \/ trig.high)) =>
        (fired # "none" /\ cooldown > 0)

\* C4 as claimed: while only the cooldown of an earlier bass beat is running, a
\* mid trigger that holds fires.
C4_PerBandRefractory ==
    (ticks > 0 /\ cdCounted > 0 /\ PriorFire.band = "bass" /\ trig.mid /\ ~trig.bass) =>
        fired = "mid"

\* C4 amended: the refractory state is one cooldown shared by all bands: on a
\* tick whose counted-down cooldown is still running no band fires, whatever
\* band set it and whatever triggers hold, and the cooldown is left as counted.
C4_SharedCooldown ==
    (ticks > 0 /\ cdCounted > 0) => (fired = "none" /\ cooldown = cdCounted)

C4_Witness ==
    /\ cdCounted > 0 /\ PriorFire.band = "bass"
    /\ trig.mid /\ ~trig.bass /\ fired = "none"

(***************************************************************************)
(* JourneyScene under bass and mid hits: runs long enough for the tempo    *)
(* estimate to move                                                        *)
(***************************************************************************)
MaxBeatTicks == 7

BeatFrameNames == {"bassHit", "midHit"}

BeatTick ==
    /\ ticks < MaxBeatTicks
    /\ \E n \in BeatFrameNames, dt \in Dts : animate(JBandsOf[n], dt)
    /\ UNCHANGED <<framePeriod, eVars, lVars, bFlow, host, sObs, rampTick, pVars, bVars>>

SpecJourneyBeats == InitJourney /\ [][BeatTick]_vars

\* C5: a beat resets the cooldown to (60000 / bpmEstimate) / d, d = 3.5 for
\* bass, 4.5 for mid, 4.5 / 0.7 for high, with bpmEstimate the estimate the tick
\* started with; a faster tempo gives a strictly shorter cooldown, and at one
\* tempo the bass cooldown is strictly longer than the mid and high ones.
C5_CooldownFromTempo ==
    LET tempi == {bpmBefore, bpmEstimate}
    IN  /\ fired = "bass" =>
              /\ cooldown * 7 * bpmBefore <= 60000 * 100 * 100 * 2
              /\ (cooldown + 1) * 7 * bpmBefore > 60000 * 100 * 100 * 2
        /\ fired = "mid" =>
              /\ cooldown * 9 * bpmBefore <= 60000 * 100 * 100 * 2
              /\ (cooldown + 1) * 9 * bpmBefore > 60000 * 100 * 100 * 2
        /\ fired = "high" =>
              /\ cooldown * 9 * bpmBefore <= 60000 * 100 * 10 * 2 * 7
              /\ (cooldown + 1) * 9 * bpmBefore > 60000 * 100 * 10 * 2 * 7
        /\ \A b \in tempi :
              /\ LessQ(otherCooldownQ(b), kickCooldownQ(b))
              /\ LessQ(highCooldownQ(b), kickCooldownQ(b))
        /\ \A b1 \in tempi : \A b2 \in tempi :
              b1 < b2 =>
                  /\ LessQ(kickCooldownQ(b2), kickCooldownQ(b1))
                  /\ LessQ(otherCooldownQ(b2), otherCooldownQ(b1))
                  /\ LessQ(highCooldownQ(b2), highCooldownQ(b1))

C5_Witness ==
    /\ fired = "bass"
    /\ bpmBefore # 12000
    /\ bpmBefore < bpmEstimate

(***************************************************************************)
(* JourneyScene under a linear bass ramp                                   *)
(***************************************************************************)
\* ticks the ramp takes from 0 to full scale
RampTicks == 50

\* display refresh periods in ms
FramePeriods == {8, 16, 33, 100}

\* tick k of the ramp: bins 0..32 hold the byte nearest below 255 * k / RampTicks
rampSpectrum(k) ==
    [j \in 1..frequencyBinCount |-> IF j - 1 <= 32 THEN (255 * k) \div RampTicks ELSE 0]

RampBandsOf == [k \in 1..RampTicks |-> journeyBands(rampSpectrum(k))]

InitRamp ==
    /\ PIdle /\ BAbsent /\ JConstructed
    /\ framePeriod \in FramePeriods
    /\ EAbsent /\ LAbsent /\ FAbsent /\ HAbsent /\ SAbsent
    /\ tObs = NoTempoObs

RampTick ==
    /\ rampTick < RampTicks
    /\ animate(RampBandsOf[rampTick + 1], framePeriod)
    /\ rampTick' = rampTick + 1
    /\ UNCHANGED <<framePeriod, eVars, lVars, bFlow, host, sObs, pVars, bVars>>

SpecRamp == InitRamp /\ [][RampTick]_vars

\* C2: with bass ramping linearly from 0 to 1 over RampTicks ticks and all other
\* bins silent, a bass beat has fired by the end of the ramp, and the first
\* beat fires on a tick at which bass exceeds its floor 0.15.
C2_RampFiresBass ==
    /\ rampTick = RampTicks => firstBeat.band = "bass"
    /\ firstBeat.band # "none" =>
          /\ firstBeat.band = "bass"
          /\ firstBeat.value > Frac(15, 100)
          /\ firstBeat.tick <= RampTicks
          /\ Len(live) + Len(pool) = maxRipples

C2_Witness ==
    /\ rampTick = RampTicks
    /\ firstBeat.band = "bass"
    /\ firstBeat.tick < RampTicks

(***************************************************************************)
(* BelieverScene: the z-score "intense beat" detector                      *)
(***************************************************************************)
\* private readonly fluxWindow = 43
fluxWindow == 43

\* const refractoryMs = 200
refractoryMs == 200

RECURSIVE gcd(_, _)
gcd(a, b) == IF b = 0 THEN a ELSE gcd(b, a % b)

RECURSIVE gcdOfNums(_, _)
\* greatest common divisor of the numerators hist[1..k].num (0 if all are 0)
gcdOfNums(hist, k) == IF k = 0 THEN 0 ELSE gcd(hist[k].num, gcdOfNums(hist, k - 1))

\* a window that evicts the newest entry (pop) instead of the oldest (shift)
pushFluxDropNewest(hist, flux) ==
    LET pushed == Append(hist, flux)
    IN  IF Len(pushed) > fluxWindow THEN SubSeq(pushed, 1, Len(pushed) - 1) ELSE pushed

\* this.fluxHistory.push(flux);
\* if (this.fluxHistory.length > this.fluxWindow) this.fluxHistory.shift();
pushFlux(hist, flux) ==
    LET pushed == Append(hist, flux)
    IN  IF Len(pushed) > fluxWindow THEN Tail(pushed) ELSE pushed

\* a detector that takes mean and std of the window as it was before the
\* current flux was pushed
exceedsThresholdBeforePush(hist, flux) ==
    LET old == SubSeq(hist, 1, Len(hist) - 1)
        g == gcdOfNums(hist, Len(hist))
        v == [k \in 1..Len(old) |-> IF g = 0 THEN 0 ELSE old[k].num \div g]
        f == IF g = 0 THEN 0 ELSE flux.num \div g
        n == IF Len(old) = 0 THEN 1 ELSE Len(old)
        S == sumBins(v, 1, Len(old))
        SS == sumBins([k \in 1..Len(old) |-> v[k] * v[k]], 1, Len(old))
        a == n * f - S
        b == n * SS - S * S
    IN  a > 0 /\ b <= (4 * a * a - 1) \div 81

\* flux > mean + 4.5 * std over the window hist (which already holds flux).
\* All entries share one denominator, and the test is unchanged when every
\* value is divided by a common factor, so it is evaluated on the numerators
\* divided by their gcd.  With n = length || 1, S the sum and SS the sum of
\* squares: mean = S/n, std = sqrt(n*SS - S*S)/n, and
\*     flux > mean + 4.5 * std   iff   a > 0 and 4 * a * a > 81 * b
\* for a = n*flux - S and b = n*SS - S*S.
exceedsThreshold(hist, flux) ==
    LET g == gcdOfNums(hist, Len(hist))
        v == [k \in 1..Len(hist) |-> IF g = 0 THEN 0 ELSE hist[k].num \div g]
        f == IF g = 0 THEN 0 ELSE flux.num \div g
        n == IF Len(hist) = 0 THEN 1 ELSE Len(hist)
        S == sumBins(v, 1, Len(hist))
        SS == sumBins([k \in 1..Len(hist) |-> v[k] * v[k]], 1, Len(hist))
        a == n * f - S
        b == n * SS - S * S
    IN  a > 0 /\ b <= (4 * a * a - 1) \div 81

\* bass > 0.4 for bass = avg(dataArray, 0, 32) / 255
bassOverFloor(q) == q.num * 10 > 4 * 255 * q.den

\* a detector without the refractory test
isIntenseBeatNoRefractory(sinceLast, over, bassOk) == over /\ bassOk

\* if (nowMs - lastBeatTime > refractoryMs) if (flux > intenseThreshold && bass > 0.4)
isIntenseBeat(sinceLast, over, bassOk) ==
    sinceLast > refractoryMs /\ over /\ bassOk

\* this.intenseBeatEnv *= 0.92
decay(env) == (env * 92) \div 100

\* one frame of BelieverScene: animate() and update(time) with the analyser
\* showing data, dtMs after the previous frame
believerUpdate(data, dtMs) ==
    LET nowMs == bNow + dtMs
        bass == avg(data, 0, 32)
        sinceLast == nowMs - bLastBeatTime
    IN  \E flux \in {bandFlux(data, prevSpectrum, 2, Min(64, Len(data) - 1))} :
        \E hist \in {pushFlux(fluxHistory, flux)} :
        \E over \in {exceedsThreshold(hist, flux)} :
        \E beat \in {isIntenseBeat(sinceLast, over, bassOverFloor(bass))} :
            /\ bNow' = nowMs
            /\ fluxHistory' = hist
            /\ bLastBeatTime' = IF beat THEN nowMs ELSE bLastBeatTime
            /\ intenseBeatEnv' = decay(IF beat THEN Scale ELSE intenseBeatEnv)
            /\ prevSpectrum' = [k \in 1..Len(prevSpectrum) |->
                                   IF k <= Len(data) THEN data[k] ELSE prevSpectrum[k]]
            /\ bView' = bView
            \* observations of this tick
            /\ bTicks' = bTicks + 1
            /\ bFired' = beat
            /\ bObs' = [over |-> over, bass |-> bassOverFloor(bass), gap |-> sinceLast,
                        prev |-> prevSpectrum, data |-> data,
                        last |-> bObs.data]
            /\ bPrevBeatAt' = IF beat /\ bLastBeatTime > 0 THEN bLastBeatTime
                              ELSE IF beat THEN -1 ELSE bPrevBeatAt
            /\ fluxLog' = Append(fluxLog, flux)

(***************************************************************************)
(* BelieverScene after a quiet intro                                       *)
(***************************************************************************)
\* frames of silence the signal starts with
QuietIntro == 21

\* frames explored after the intro
FreeTicks == 3

\* display refresh periods in ms
BFramePeriods == {50, 100, 250}

\* a spectrum whose bins 0..1 hold a, 2..32 hold b, 33..64 hold c
believerSpectrum(a, b, c) ==
    [k \in 1..frequencyBinCount |->
        IF k - 1 < 2 THEN a ELSE IF k - 1 <= 32 THEN b ELSE IF k - 1 <= 64 THEN c ELSE 0]

BFrameNames == {"quiet", "kick", "blast", "hiss"}

BSpectrumOf ==
    [n \in BFrameNames |->
        CASE n = "quiet" -> believerSpectrum(0, 0, 0)
          [] n = "kick"  -> believerSpectrum(255, 102, 0)
          [] n = "blast" -> believerSpectrum(255, 255, 255)
          [] n = "hiss"  -> believerSpectrum(0, 0, 255)]

InitBeliever ==
    /\ PIdle /\ JAbsent /\ BInit
    /\ framePeriod \in BFramePeriods
    /\ EAbsent /\ LAbsent /\ FAbsent /\ HAbsent /\ SAbsent

BelieverTick ==
    /\ bTicks < QuietIntro + FreeTicks
    /\ \E n \in BFrameNames :
          /\ bTicks < QuietIntro => n = "quiet"
          /\ believerUpdate(BSpectrumOf[n], framePeriod)
    /\ UNCHANGED <<framePeriod, eVars, lVars, bFlow, host, sObs, pVars, jVars>>

SpecBeliever == InitBeliever /\ [][BelieverTick]_vars

\* C6: the beat envelope is set to 1 on a tick only if, on that tick, the flux
\* exceeds mean + 4.5 * stddev of the window, bass > 0.4 and more than 200 ms
\* have passed since the previous intense beat; two intense beats are never
\* 200 ms or less apart.
C6_IntenseBeatGuards ==
    /\ intenseBeatEnv <= Frac(92, 100)
    /\ (bFired \/ intenseBeatEnv = Frac(92, 100)) =>
          /\ bObs.over /\ bObs.bass /\ bObs.gap > 200
          /\ bLastBeatTime = bNow
          /\ bPrevBeatAt >= 0 => bNow - bPrevBeatAt > 200

C6_Witness ==
    /\ bFired /\ intenseBeatEnv = Frac(92, 100)
    /\ bPrevBeatAt >= 0

(***************************************************************************)
(* BelieverScene under a scripted signal long enough to fill the window    *)
(***************************************************************************)
\* frames of the scripted signal
WindowTicks == 46

\* frame k of the script: every bin holds 51 * (k * k mod 6)
scriptSpectrum(k) == [j \in 1..frequencyBinCount |-> 51 * ((k * k) % 6)]

ScriptTick ==
    /\ bTicks < WindowTicks
    /\ believerUpdate(scriptSpectrum(bTicks + 1), framePeriod)
    /\ UNCHANGED <<framePeriod, eVars, lVars, bFlow, host, sObs, pVars, jVars>>

SpecFluxWindow == InitBeliever /\ [][ScriptTick]_vars

\* the last n entries of s (all of s if it has fewer)
LastN(s, n) == SubSeq(s, Max(1, Len(s) - n + 1), Len(s))

\* C9: after every tick fluxHistory holds at most 43 entries, and they are the
\* flux values of the most recent ticks in arrival order (the oldest is the
\* one evicted).
C9_FluxWindowFifo ==
    /\ Len(fluxLog) = bTicks
    /\ Len(fluxHistory) <= 43
    /\ Len(fluxHistory) = Min(43, bTicks)
    /\ fluxHistory = LastN(fluxLog, 43)

C9_Witness ==
    /\ bTicks >= 45
    /\ Len(fluxHistory) = 43
    /\ fluxHistory # SubSeq(fluxLog, 1, 43)
    /\ fluxHistory # SubSeq(fluxLog, 2, 44)

(***************************************************************************)
(* JourneyScene's tempo estimator under a stream of bass beats.  Each step *)
(* is the updateTempo(now) call of one bass beat; the frames between two   *)
(* beats leave the tempo state alone.                                      *)
(***************************************************************************)
\* the bass beat of a frame gap ms after the previous beat: updateTempo(now)
TempoBeatAt(gap) ==
    LET nowN == now + gap
        ts0 == [beatIntervals |-> beatIntervals, lastBeatTime |-> lastBeatTime,
                bpmEstimate |-> bpmEstimate, bpmConfidence |-> bpmConfidence]
    IN  \E ts1 \in {updateTempo(ts0, nowN)} :
          /\ now' = nowN
          /\ lastNow' = nowN
          /\ beatIntervals' = ts1.beatIntervals
          /\ lastBeatTime' = ts1.lastBeatTime
          /\ bpmEstimate' = ts1.bpmEstimate
          /\ bpmConfidence' = ts1.bpmConfidence
          /\ ticks' = ticks + 1
          /\ bpmBefore' = bpmEstimate
          /\ tObs' = [tempoObserved(tObs, ts0, nowN, TRUE) EXCEPT !.op = "beat"]
          /\ UNCHANGED <<bassEma, midEma, highEma, prevBass, prevMid, prevHigh,
                         cooldown, pool, live, a_t0, a_dur, a_rmax, a_center, a_col,
                         view,
                         fired, cdCounted, trig, lastFire, prevFire, rampTick,
                         firstBeat, rObs, framePeriod, eVars, lVars, bFlow, host, sObs, pVars, bVars>>

\* beats explored with freely chosen gaps
MaxTempoCalls == 6

\* gaps between beats in ms: below, at and above both limits, and in between
TempoGaps == {150, 200, 201, 500, 1000, 1999, 2000, 2500}

TempoBeat ==
    /\ ticks < MaxTempoCalls
    /\ \E gap \in TempoGaps : TempoBeatAt(gap)

SpecTempo == InitJourney /\ [][TempoBeat]_vars

\* C12: updateTempo appends the interval it measured only when it lies strictly
\* between 200 ms and 2000 ms (then it is appended at the end, the oldest entry
\* leaving a full history); otherwise beatIntervals, bpmEstimate and
\* bpmConfidence are exactly as before the call.
C12_IntervalGate ==
    tObs.called =>
        LET b == tObs.before
            iv == now - b.lastBeatTime
        IN  IF b.lastBeatTime > 0 /\ 200 < iv /\ iv < 2000
            THEN /\ beatIntervals = LastN(Append(b.beatIntervals, iv), 16)
                 /\ tObs.recorded
            ELSE /\ beatIntervals = b.beatIntervals
                 /\ bpmEstimate = b.bpmEstimate
                 /\ bpmConfidence = b.bpmConfidence
                 /\ ~tObs.recorded

\* a call that measured exactly 2000 ms with four intervals already stored
C12_Witness ==
    /\ tObs.called /\ tObs.interval = 2000
    /\ Len(tObs.before.beatIntervals) = 4
    /\ beatIntervals = tObs.before.beatIntervals
    /\ \E k \in 1..4 : beatIntervals[k] = 201

\* twice the median of a non-empty sequence: the middle value counted twice
\* for an odd length, the sum of the two middle values for an even length
twiceMedian(intervals) ==
    LET sorted == SortSeq(intervals, LAMBDA x, y : x < y)
        n == Len(intervals)
    IN  IF n % 2 = 1 THEN 2 * sorted[(n + 1) \div 2]
        ELSE sorted[n \div 2] + sorted[n \div 2 + 1]

\* C14: when an interval is recorded and the history then holds at least 4
\* intervals, the BPM the estimate is moved toward is 60000 divided by the
\* median of the stored intervals (the mean of the two middle values for an
\* even number of them); with fewer than 4 intervals bpmEstimate is unchanged.
C14_MedianTarget ==
    tObs.recorded =>
        IF Len(beatIntervals) >= 4
        THEN tObs.estimated = (60000 * 100 * 2) \div twiceMedian(beatIntervals)
        ELSE bpmEstimate = tObs.before.bpmEstimate

(***************************************************************************)
(* The tempo estimator under scripted beat streams, long enough to fill    *)
(* the interval history                                                    *)
(***************************************************************************)
\* beats of a stream
MaxStreamCalls == 20

\* steady streams of one gap (150: every interval rejected) and streams of
\* varying gaps, two of them with gaps outside (200, 2000)
TempoStreams ==
    {[base |-> d, step |-> 0, mod |-> 1] : d \in {150, 201, 250, 500, 1000, 1999}}
        \cup {[base |-> 250, step |-> 130, mod |-> 7],
              [base |-> 150, step |-> 200, mod |-> 11],
              [base |-> 150, step |-> 250, mod |-> 11]}

gapOf(stream, k) == stream.base + stream.step * ((k * k) % stream.mod)

InitTempoStream ==
    /\ PIdle /\ JConstructed /\ BAbsent /\ framePeriod = 0
    /\ EAbsent /\ LAbsent /\ FAbsent /\ HAbsent /\ SAbsent
    /\ tObs \in {[NoTempoObs EXCEPT !.stream = st] : st \in TempoStreams}

StreamBeat ==
    /\ ticks < MaxStreamCalls
    /\ TempoBeatAt(gapOf(tObs.stream, ticks + 1))

SpecTempoStream == InitTempoStream /\ [][StreamBeat]_vars

\* C13: beatIntervals holds at most 16 intervals, and they are the most
\* recently recorded ones in the order they were recorded: recording a 17th
\* removes the oldest.
C13_IntervalsFifo ==
    /\ Len(beatIntervals) <= 16
    /\ Len(beatIntervals) = Min(16, Len(tObs.accepted))
    /\ beatIntervals = LastN(tObs.accepted, 16)

C13_Witness ==
    /\ Len(tObs.accepted) >= 17
    /\ Len(beatIntervals) = 16
    /\ beatIntervals # SubSeq(tObs.accepted, 1, 16)
    /\ tObs.accepted[1] # tObs.accepted[17]

Abs(x) == IF x >= 0 THEN x ELSE -x

\* the stream of this run is steady with an accepted gap
SteadyAccepted == tObs.stream.step = 0 /\ 200 < tObs.stream.base /\ tObs.stream.base < 2000

\* C15: a tempo update moves bpmEstimate by one tenth of its gap to the newly
\* computed BPM (to the rounding of the fixed-point estimate), toward it and
\* never onto or past it; in a stream of beats with one accepted gap d the
\* estimate moves toward 60000 / d only, and its distance to 60000 / d never
\* grows and shrinks while it is a tenth of a BPM or more.
C15_SmoothedTenth ==
    LET b == tObs.before.bpmEstimate
        e == tObs.estimated
        g == e - b
        mv == bpmEstimate - b
        T == (60000 * 100) \div tObs.stream.base
    IN  /\ e > 0 =>
              /\ 10 * Abs(mv) <= Abs(g) /\ Abs(g) < 10 * Abs(mv) + 10
              /\ g > 0 => (b <= bpmEstimate /\ bpmEstimate < e)
              /\ g < 0 => (e < bpmEstimate /\ bpmEstimate <= b)
              /\ g = 0 => bpmEstimate = b
        /\ e = 0 /\ ticks > 0 => bpmEstimate = b
        /\ (SteadyAccepted /\ ticks > 0) =>
              /\ e > 0 => e = T
              /\ Abs(T - bpmEstimate) <= Abs(T - b)
              /\ b <= T => (b <= bpmEstimate /\ bpmEstimate <= T)
              /\ b >= T => (T <= bpmEstimate /\ bpmEstimate <= b)
              /\ (e > 0 /\ Abs(T - b) >= 10) => Abs(T - bpmEstimate) < Abs(T - b)

\* the 250 ms stream (240 BPM) after all its beats: the estimate has risen
\* from 120 BPM and is still below 240
C15_Witness ==
    /\ tObs.stream = [base |-> 250, step |-> 0, mod |-> 1]
    /\ ticks = MaxStreamCalls
    /\ tObs.estimated = 24000
    /\ tObs.before.bpmEstimate > 12000
    /\ bpmEstimate > tObs.before.bpmEstimate
    /\ bpmEstimate < 24000

\* every beat after the first has recorded its interval
AllAccepted == ticks > 0 /\ Len(tObs.accepted) = ticks - 1

\* C16: in a stream of beats whose intervals are all accepted, bpmConfidence
\* always equals min(1, historyLength / 16), rises strictly with every call
\* that records an interval until the history holds 16 intervals, and never
\* falls.
C16_ConfidenceTracksHistory ==
    AllAccepted =>
        /\ bpmConfidence = Min(Scale, (Len(beatIntervals) * Scale) \div 16)
        /\ (tObs.recorded /\ Len(tObs.before.beatIntervals) < 16) =>
              bpmConfidence > tObs.before.bpmConfidence
        /\ bpmConfidence >= tObs.before.bpmConfidence

\* C17: bpmEstimate is 120 at construction and in every state lies within
\* [30, 300]; the cooldowns derived from it are finite and positive.
C17_BpmInRange ==
    /\ ticks = 0 => bpmEstimate = 12000
    /\ 3000 <= bpmEstimate /\ bpmEstimate <= 30000
    /\ kickCooldownQ(bpmEstimate).den > 0 /\ kickCooldown(bpmEstimate) > 0
    /\ otherCooldownQ(bpmEstimate).den > 0 /\ otherCooldown(bpmEstimate) > 0
    /\ highCooldownQ(bpmEstimate).den > 0 /\ highCooldown(bpmEstimate) > 0

\* the 201 ms stream (298.5 BPM) after all its beats
C17_Witness ==
    /\ tObs.stream = [base |-> 201, step |-> 0, mod |-> 1]
    /\ ticks = MaxStreamCalls
    /\ bpmEstimate > 25000
    /\ kickCooldown(bpmEstimate) < kickCooldown(12000)

(***************************************************************************)
(* JourneyScene under frames and resize events                             *)
(***************************************************************************)
\* animation frames explored
MaxEventTicks == 4

EventFrameNames == {"silence", "bassHit", "midHit"}

\* the tempo state of this state, as a record
tempoNow ==
    [beatIntervals |-> beatIntervals, lastBeatTime |-> lastBeatTime,
     bpmEstimate |-> bpmEstimate, bpmConfidence |-> bpmConfidence]

EventTick ==
    /\ ticks < MaxEventTicks
    /\ \E n \in EventFrameNames, dt \in Dts : animate(JBandsOf[n], dt)
    /\ UNCHANGED <<framePeriod, eVars, lVars, bFlow, host, sObs, rampTick, pVars, bVars>>

\* a resize event between two frames: handleResize()
EventResize ==
    /\ ticks < MaxEventTicks
    /\ \E r \in PixelRatios, sz \in ClientSizes :
          view' = handleResize(r, sz[1], sz[2])
    /\ tObs' = [tempoObserved(tObs, tempoNow, now, FALSE) EXCEPT !.op = "resize"]
    /\ UNCHANGED <<now, lastNow, bassEma, midEma, highEma, prevBass, prevMid,
                   prevHigh, cooldown, beatIntervals, lastBeatTime, bpmEstimate,
                   bpmConfidence, pool, live, a_t0, a_dur, a_rmax, a_center, a_col,
                   ticks, fired, cdCounted, trig, bpmBefore, lastFire, prevFire,
                   rampTick, firstBeat, rObs, framePeriod, eVars, lVars, bFlow, host, sObs, pVars, bVars>>

SpecJourneyEvents == InitJourney /\ [][EventTick \/ EventResize]_vars

\* C18 as claimed: the tempo state changes only on a tick that emits a beat,
\* every beat emitted is passed to the tempo estimator, and a resize leaves the
\* tempo state unchanged.
C18_EveryBeatToTempo ==
    /\ tObs.op = "tick" =>
          /\ tempoNow # tObs.before => fired # "none"
          /\ fired # "none" => (tObs.called /\ lastBeatTime = now)
    /\ tObs.op = "resize" => tempoNow = tObs.before

\* C18 amended: the tempo state changes only on a tick that emits a bass beat;
\* every bass beat, and no beat of another band, is passed to the tempo
\* estimator; a tick without a bass beat (with its ripple culling) and a resize
\* leave the tempo state unchanged, and no operation empties the history or
\* sets lastBeatTime back.
C18_BassBeatToTempo ==
    /\ tObs.op = "tick" =>
          /\ tObs.called <=> fired = "bass"
          /\ fired = "bass" => lastBeatTime = now
          /\ fired # "bass" => tempoNow = tObs.before
    /\ tObs.op = "resize" => tempoNow = tObs.before
    /\ Len(beatIntervals) >= Len(tObs.before.beatIntervals)
    /\ lastBeatTime >= tObs.before.lastBeatTime

\* a mid beat after a bass beat: the tick emitted a beat and the tempo state is
\* as it was
C18_Witness ==
    /\ tObs.op = "tick" /\ fired = "mid"
    /\ lastBeatTime > 0 /\ lastBeatTime < now
    /\ tempoNow = tObs.before

(***************************************************************************)
(* JourneyScene's ripple pool under bursts of spawns and culls: spawnRipple *)
(* and cullRipples called as often as the pool can be asked, more often    *)
(* than the detector's cooldown lets a running scene call them             *)
(***************************************************************************)
\* culls explored
MaxCulls == 3

\* spawn attempts between two culls: a cull comes after a burst of one of
\* these sizes; the largest exceeds the pool
BurstSizes == {1, 40, 97}
MaxBurst == 97

\* ms from one spawn attempt to the next, and from the last one to a cull
SpawnStep == 5
CullSteps == {700, 1300, 2100}

\* the energy of the k-th spawn attempt: 0, 0.5, 1, 0, ...
spawnEnergy(k) == ((k % 3) * Scale) \div 2

ripples == [pool |-> pool, live |-> live, t0 |-> a_t0, dur |-> a_dur,
            rmax |-> a_rmax, center |-> a_center, col |-> a_col]

\* spawnRipple(cx, cy, energy)
PoolSpawn ==
    /\ rObs.sinceCull < MaxBurst
    /\ \E rx \in RandomDraws, ry \in RandomDraws,
          ra \in RandomDraws, rb \in RandomDraws, rc \in RandomDraws :
       \E rs2 \in {spawnRipple(ripples, (rx * 14) \div 10 - (14 * Scale) \div 20,
                               (ry * 14) \div 10 - (14 * Scale) \div 20,
                               spawnEnergy(rObs.spawns + 1), now + SpawnStep,
                               <<paletteIndex(ra), paletteIndex(rb),
                                 paletteIndex(rc)>>)} :
          /\ now' = now + SpawnStep
          /\ pool' = rs2.pool /\ live' = rs2.live
          /\ a_t0' = rs2.t0 /\ a_dur' = rs2.dur
          /\ a_rmax' = rs2.rmax /\ a_center' = rs2.center
          /\ a_col' = rs2.col
          /\ rObs' = [rObs EXCEPT !.op = "spawn",
                                  !.spawns = @ + 1,
                                  !.sinceCull = @ + 1,
                                  !.dropped = (Len(pool) = 0),
                                  !.changed = (rs2 # ripples),
                                  !.recent =
                                      IF Len(pool) = 0 THEN @
                                      ELSE LastN(Append(@,
                                             [energy |-> spawnEnergy(rObs.spawns + 1),
                                              dur    |-> rs2.dur[pool[Len(pool)]],
                                              rmax   |-> rs2.rmax[pool[Len(pool)]]]),
                                             3)]
    /\ UNCHANGED <<lastNow, bassEma, midEma, highEma, prevBass, prevMid, prevHigh,
                   cooldown, beatIntervals, lastBeatTime, bpmEstimate,
                   bpmConfidence, view, ticks, fired, cdCounted, trig, bpmBefore,
                   lastFire, prevFire, rampTick, firstBeat, tObs,
                   framePeriod, eVars, lVars, bFlow, host, sObs, pVars, bVars>>

\* cullRipples(nowSec)
PoolCull ==
    /\ rObs.culls < MaxCulls
    /\ rObs.sinceCull \in BurstSizes
    /\ \E dt \in CullSteps :
       \E rs2 \in {cullRipples(ripples, now + dt)} :
          /\ now' = now + dt
          /\ pool' = rs2.pool /\ live' = rs2.live
          /\ a_t0' = rs2.t0 /\ a_dur' = rs2.dur
          /\ a_rmax' = rs2.rmax /\ a_center' = rs2.center
          /\ a_col' = rs2.col
          /\ \E all \in {\A k \in 1..Len(live) :
                             (now + dt) - a_t0[live[k]] > a_dur[live[k]]} :
                rObs' = [rObs EXCEPT !.op = "cull",
                                     !.culls = @ + 1,
                                     !.sinceCull = 0,
                                     !.dropped = FALSE,
                                     !.changed = (rs2 # ripples),
                                     !.culled = Len(live) - Len(rs2.live),
                                     !.allExpired = all,
                                     !.afterFull = all]
    /\ UNCHANGED <<lastNow, bassEma, midEma, highEma, prevBass, prevMid, prevHigh,
                   cooldown, beatIntervals, lastBeatTime, bpmEstimate,
                   bpmConfidence, view, ticks, fired, cdCounted, trig, bpmBefore,
                   lastFire, prevFire, rampTick, firstBeat, tObs,
                   framePeriod, eVars, lVars, bFlow, host, sObs, pVars, bVars>>

SpecPool == InitJourney /\ [][PoolSpawn \/ PoolCull]_vars

\* the slots held by a list
SlotsOf(list) == {list[k] : k \in 1..Len(list)}

\* C19: the free list and the live list are disjoint, hold no index twice and
\* together hold exactly the slots 0..95; the live list never holds more than
\* 96 entries, however many spawns are attempted.
C19_PoolPartition ==
    /\ SlotsOf(pool) \cap SlotsOf(live) = {}
    /\ Cardinality(SlotsOf(pool)) = Len(pool)
    /\ Cardinality(SlotsOf(live)) = Len(live)
    /\ SlotsOf(pool) \cup SlotsOf(live) = 0..95
    /\ Len(live) <= 96

\* a spawn attempted on an empty pool, with no cull since the pool was full
C19_Witness ==
    /\ rObs.op = "spawn" /\ rObs.dropped
    /\ rObs.sinceCull = 97
    /\ Len(live) = 96 /\ Len(pool) = 0

\* C20: after a cull at which every live ripple had expired (now - start >
\* duration) the live list is empty and the free list holds all 96 slots, and
\* each of the next 96 spawns succeeds, whatever spawns and culls came before.
C20_FullCullFreesAll ==
    /\ (rObs.op = "cull" /\ rObs.allExpired) =>
          /\ live = <<>>
          /\ Len(pool) = 96
          /\ SlotsOf(pool) = 0..95
    /\ (rObs.afterFull /\ rObs.sinceCull <= 96) =>
          /\ Len(live) = rObs.sinceCull
          /\ Len(pool) = 96 - rObs.sinceCull
          /\ rObs.op = "spawn" => ~rObs.dropped

\* 96 spawns after a cull that returned every live ripple, itself after an
\* earlier cull
C20_Witness ==
    /\ rObs.afterFull /\ rObs.culls >= 2
    /\ rObs.op = "spawn" /\ rObs.sinceCull = 96
    /\ Len(live) = 96

\* the slots of the attribute arrays
Slots == 0..(maxRipples - 1)

\* C21: a spawn attempted while the free list is empty changes nothing: the
\* live list, the free list and every slot's center, start time, duration,
\* radius and colours are as before; and the attribute arrays never hold more
\* than the 96 slots.
C21_DroppedSpawnIsNoOp ==
    /\ (rObs.op = "spawn" /\ rObs.dropped) => ~rObs.changed
    /\ DOMAIN a_t0 = Slots /\ DOMAIN a_dur = Slots /\ DOMAIN a_rmax = Slots
    /\ DOMAIN a_center = Slots /\ DOMAIN a_col = Slots

\* a spawn dropped after a cull that left some ripples live: the pool is
\* empty with ripples of different ages and colours in the slots
C21_Witness ==
    /\ rObs.op = "spawn" /\ rObs.dropped /\ ~rObs.changed
    /\ rObs.culls >= 1
    /\ Len(pool) = 0 /\ Len(live) = 96

Tenths(energy) == energy \div (Scale \div 10)

\* f grows at least like energy squared from the base value f0 (the value at
\* energy 0) between the energies ex < ey, where it takes the values fx and fy:
\* (fy - f0) / ey^2 >= (fx - f0) / ex^2
GrowsLikeSquare(f0, ex, fx, ey, fy) ==
    (fy - f0) * Tenths(ex) * Tenths(ex) >= (fx - f0) * Tenths(ey) * Tenths(ey)

\* C23: the duration and the maximum radius of a spawned ripple are functions
\* of the energy alone, non-decreasing in it, and super-linear: from energy 0
\* upward each grows at least like the square of the energy.
C23_SuperLinearResponse ==
    \A j, k, l \in 1..Len(rObs.recent) :
        \E z \in {rObs.recent[j]}, x \in {rObs.recent[k]}, y \in {rObs.recent[l]} :
            /\ x.energy = y.energy => (x.dur = y.dur /\ x.rmax = y.rmax)
            /\ x.energy <= y.energy => (x.dur <= y.dur /\ x.rmax <= y.rmax)
            /\ (z.energy = 0 /\ 0 < x.energy /\ x.energy < y.energy) =>
                   /\ GrowsLikeSquare(z.rmax, x.energy, x.rmax, y.energy, y.rmax)
                   /\ GrowsLikeSquare(z.dur, x.energy, x.dur, y.energy, y.dur)

(***************************************************************************)
(* The 2D fallback scene: ensureParticles and renderEmotionScene           *)
(* Positions, velocities and sizes are in PxUnit-ths of a pixel.           *)
(***************************************************************************)
PxUnit == 100 * 100

\* the values a stream of Math.random() calls may return, in millionths; the
\* j-th call (from 0) of the stream chosen by seed returns draw(seed, j)
DrawValues == <<0, Frac(1, 2), Scale - 1, Frac(1, 4), Frac(3, 4), Frac(1, 10),
                Frac(9, 10)>>
Seeds == {0, 3}
draw(seed, j) == DrawValues[((seed + j) % Len(DrawValues)) + 1]

\* the k-th particle (from 0) pushed by a call:
\* { x: Math.random() * w, y: Math.random() * h,
\*   vx: (Math.random() - 0.5) * 0.4, vy: (Math.random() - 0.5) * 0.4,
\*   s: Math.random() * 2 + 0.5 }
newParticle(seed, k, w, h) ==
    [x  |-> (draw(seed, 5 * k) * w) \div 100,
     y  |-> (draw(seed, 5 * k + 1) * h) \div 100,
     vx |-> ((draw(seed, 5 * k + 2) - Frac(1, 2)) * 4) \div 1000,
     vy |-> ((draw(seed, 5 * k + 3) - Frac(1, 2)) * 4) \div 1000,
     s  |-> (draw(seed, 5 * k + 4) * 2) \div 100 + PxUnit \div 2]

\* a call that, finding the array at the target already, replaces the last
\* particle by a new one
ensureParticlesReroll(ps, n, w, h, seed) ==
    IF Len(ps) < n
    THEN ps \o [k \in 1..(n - Len(ps)) |-> newParticle(seed, k - 1, w, h)]
    ELSE IF Len(ps) > n THEN SubSeq(ps, 1, n)
    ELSE IF n = 0 THEN ps
    ELSE SubSeq(ps, 1, n - 1) \o <<newParticle(seed, 0, w, h)>>

\* a call that shrinks from the head (shift) and grows at the head (unshift)
ensureParticlesAtHead(ps, n, w, h, seed) ==
    IF Len(ps) < n
    THEN [k \in 1..(n - Len(ps)) |-> newParticle(seed, k - 1, w, h)] \o ps
    ELSE IF Len(ps) > n THEN SubSeq(ps, Len(ps) - n + 1, Len(ps))
    ELSE ps

\* ensureParticles(particles, n, w, h) for an integer n >= 0:
\* while (particles.length < n) particles.push({...});
\* while (particles.length > n) particles.pop();
ensureParticles(ps, n, w, h, seed) ==
    IF Len(ps) < n
    THEN ps \o [k \in 1..(n - Len(ps)) |-> newParticle(seed, k - 1, w, h)]
    ELSE IF Len(ps) > n THEN SubSeq(ps, 1, n)
    ELSE ps

\* (Math.random() - 0.5) * 0.02 * (0.5 + tre)
jitter(r, tre) ==
    (((r - Frac(1, 2)) \div 1000) * ((Frac(1, 2) + tre) \div 1000)) \div 5000

\* 0.6 + mid * 1.4, in thousandths
gain(mid) == 600 + (mid * 14) \div 10000

\* if (p.x < 0) p.x += canvasWidth; if (p.x > canvasWidth) p.x -= canvasWidth;
wrap(c, extent) ==
    LET a == IF c < 0 THEN c + extent ELSE c
    IN  IF a > extent THEN a - extent ELSE a

\* the body of particles.forEach for the k-th particle (from 0)
moveParticle(p, k, mid, tre, canvasWidth, canvasHeight, seed) ==
    LET vx == p.vx + jitter(draw(seed, 2 * k), tre)
        vy == p.vy + jitter(draw(seed, 2 * k + 1), tre)
    IN  [x  |-> wrap(p.x + (vx * gain(mid)) \div 1000, canvasWidth * PxUnit),
         y  |-> wrap(p.y + (vy * gain(mid)) \div 1000, canvasHeight * PxUnit),
         vx |-> vx, vy |-> vy, s |-> p.s]

\* renderEmotionScene(ctx, track, data, particles, canvasWidth, canvasHeight):
\* the particles after the call
renderEmotionScene(data, ps, canvasWidth, canvasHeight, seed) ==
    LET mid == normalized(avg(data, 64, 256))
        tre == normalized(avg(data, 257, 512))
    IN  [k \in 1..Len(ps) |->
            moveParticle(ps[k], k - 1, mid, tre, canvasWidth, canvasHeight, seed)]

\* a spectrum whose bins 64..256 hold m and 257..512 hold t
spectrum2D(m, t) ==
    [k \in 1..frequencyBinCount |->
        IF k - 1 < 64 THEN 0 ELSE IF k - 1 <= 256 THEN m
        ELSE IF k - 1 <= 512 THEN t ELSE 0]

Frame2DNames == {"quiet", "mids", "loud"}

Spectrum2DOf ==
    [n \in Frame2DNames |->
        CASE n = "quiet" -> spectrum2D(0, 0)
          [] n = "mids"  -> spectrum2D(128, 0)
          [] n = "loud"  -> spectrum2D(255, 255)]

\* client sizes of the canvas explored
Canvas2DSizes == {<<800, 600>>, <<300, 200>>}

\* the particle observation after an operation op with target n
particleObserved(op, n) ==
    [op |-> op, n |-> n, size |-> canvas2D, before |-> particles,
     prevOp |-> eObs.op, prevN |-> eObs.n, prevSize |-> eObs.size,
     calls |-> eObs.calls + 1]

(***************************************************************************)
(* ensureParticles and renderEmotionScene called directly with small       *)
(* targets                                                                 *)
(***************************************************************************)
MaxParticleCalls == 3
MaxCount == 3

InitParticles ==
    /\ PIdle /\ JAbsent /\ BAbsent /\ LAbsent /\ framePeriod = 0
    /\ FAbsent /\ HAbsent /\ SAbsent
    /\ particles = <<>>
    /\ canvas2D \in Canvas2DSizes
    /\ eObs = NoParticleObs

\* ensureParticles(particles, n, w, h)
EnsureCall ==
    /\ eObs.calls < MaxParticleCalls
    /\ \E n \in 0..MaxCount, seed \in Seeds :
          /\ particles' = ensureParticles(particles, n, canvas2D[1], canvas2D[2], seed)
          /\ eObs' = particleObserved("ensure", n)
    /\ UNCHANGED <<canvas2D, pVars, jVars, bVars, lVars, framePeriod, bFlow, host, sObs>>

\* renderEmotionScene(ctx, track, data, particles, w, h)
RenderCall ==
    /\ eObs.calls < MaxParticleCalls
    /\ \E f \in Frame2DNames, seed \in Seeds :
          /\ particles' = renderEmotionScene(Spectrum2DOf[f], particles,
                                             canvas2D[1], canvas2D[2], seed)
          /\ eObs' = particleObserved("tick", Len(particles))
    /\ UNCHANGED <<canvas2D, pVars, jVars, bVars, lVars, framePeriod, bFlow, host, sObs>>

\* the window is resized: the canvas gets another client size
SizeChange ==
    /\ eObs.calls < MaxParticleCalls
    /\ eObs.op # "resize"
    /\ \E sz \in Canvas2DSizes \ {canvas2D} :
          canvas2D' = sz
    /\ eObs' = particleObserved("resize", Len(particles))
    /\ UNCHANGED <<particles, pVars, jVars, bVars, lVars, framePeriod, bFlow, host, sObs>>

SpecParticles == InitParticles /\ [][EnsureCall \/ RenderCall \/ SizeChange]_vars

\* C24: a call of ensureParticles that follows a call with the same target n,
\* width and height changes nothing: the array has length n and holds the
\* particles it held before the call, none of them new.
C24_EnsureTwiceIsNoOp ==
    (/\ eObs.op = "ensure" /\ eObs.prevOp = "ensure"
     /\ eObs.n = eObs.prevN /\ eObs.size = eObs.prevSize) =>
        /\ Len(particles) = eObs.n
        /\ particles = eObs.before

\* a second call with the same non-zero target on a canvas of the same size
C24_Witness ==
    /\ eObs.op = "ensure" /\ eObs.prevOp = "ensure"
    /\ eObs.n = eObs.prevN /\ eObs.size = eObs.prevSize
    /\ eObs.n = MaxCount
    /\ particles = eObs.before

\* C25: ensureParticles returns an array of exactly n particles. When it
\* grows the array the particles held before keep their values and places and
\* the new ones follow them, each with 0 <= x < w and 0 <= y < h; when it
\* shrinks the array what is left is the first n particles held before.
C25_EnsureGrowsAndShrinksAtTail ==
    eObs.op = "ensure" =>
        /\ Len(particles) = eObs.n
        /\ eObs.n >= Len(eObs.before) =>
              /\ SubSeq(particles, 1, Len(eObs.before)) = eObs.before
              /\ \A k \in (Len(eObs.before) + 1)..eObs.n :
                    /\ 0 <= particles[k].x /\ particles[k].x < eObs.size[1] * PxUnit
                    /\ 0 <= particles[k].y /\ particles[k].y < eObs.size[2] * PxUnit
        /\ eObs.n <= Len(eObs.before) =>
              particles = SubSeq(eObs.before, 1, eObs.n)

\* an array of particles that a tick has moved is grown by two
C25_Witness ==
    /\ eObs.op = "ensure" /\ eObs.prevOp = "tick"
    /\ Len(eObs.before) = 1 /\ eObs.n = 3
    /\ Len(particles) = 3
    /\ particles[2] # particles[3]

(***************************************************************************)
(* The 2D fallback scene as SceneView runs it: render2DScene once a frame, *)
(* window resizes in between                                               *)
(***************************************************************************)
MaxSceneCalls == 4

\* const count = Math.floor(140 + mid * 260)
particleCount(mid) == 140 + (mid * 260) \div Scale

\* render2DScene: ensureParticles(particles, count, w, h), then
\* renderEmotionScene(ctx, currentTrack, dataArray, currentParticles, w, h)
Render2DTick ==
    /\ eObs.calls < MaxSceneCalls
    /\ \E f \in Frame2DNames, seed \in Seeds :
       \E count \in {particleCount(normalized(avg(Spectrum2DOf[f], 64, 256)))} :
       \E ensured \in {ensureParticles(particles, count, canvas2D[1], canvas2D[2], seed)} :
          /\ particles' = renderEmotionScene(Spectrum2DOf[f], ensured,
                                             canvas2D[1], canvas2D[2],
                                             seed + 5 * Max(0, count - Len(particles)))
          /\ eObs' = particleObserved("tick", count)
    /\ UNCHANGED <<canvas2D, pVars, jVars, bVars, lVars, framePeriod, bFlow, host, sObs>>

\* the window is resized between two frames: resize2D sets the canvas's backing
\* size, and the next render2DScene reads the new clientWidth and clientHeight
Resize2D ==
    /\ eObs.calls < MaxSceneCalls
    /\ eObs.op # "resize"
    /\ \E sz \in Canvas2DSizes \ {canvas2D} :
          canvas2D' = sz
    /\ eObs' = particleObserved("resize", Len(particles))
    /\ UNCHANGED <<particles, pVars, jVars, bVars, lVars, framePeriod, bFlow, host, sObs>>

Spec2DScene == InitParticles /\ [][Render2DTick \/ Resize2D]_vars

\* C26: after every tick of renderEmotionScene every particle lies on the
\* canvas, 0 <= x < width and 0 <= y < height, whatever the positive size of
\* the canvas, also when a resize shrank it since the tick before.
C26_ParticlesOnCanvas ==
    eObs.op = "tick" =>
        \A k \in 1..Len(particles) :
            /\ 0 <= particles[k].x /\ particles[k].x < canvas2D[1] * PxUnit
            /\ 0 <= particles[k].y /\ particles[k].y < canvas2D[2] * PxUnit

(***************************************************************************)
(* DataView: the bars, the hover test and the lens                         *)
(* Lengths are in PxUnit-ths of a pixel, alpha in millionths.              *)
(***************************************************************************)
\* a quotient rounded toward zero
towardZero(a, b) == IF a >= 0 THEN a \div b ELSE -((-a) \div b)

\* const lensState = useRef({ isHovering: false, mouseX: 0, ... alpha: 0 })
lensState ==
    [isHovering |-> FALSE, mouseX |-> 0, mouseY |-> 0, hoverIndex |-> -1,
     targetX |-> 0, targetY |-> 0, targetR |-> 0,
     posX |-> 0, posY |-> 0, posR |-> 0,
     velX |-> 0, velY |-> 0, velR |-> 0,
     alpha |-> 0]

nBars == 96
margin == 36
barGap == 3

\* const barW = (width - margin * 2 - (nBars - 1) * barGap) / nBars
barW(width) == ((width - margin * 2 - (nBars - 1) * barGap) * PxUnit) \div nBars

\* const step = Math.floor(analyser.frequencyBinCount / nBars)
step == frequencyBinCount \div nBars

\* the shape of bar i: { x, y: height - margin - h, w: barW, h } with
\* h = (v / 255) * (height - margin * 2), v = dataArray[i * step]
barShape(i, data, width, height) ==
    LET h == (data[i * step + 1] * (height - margin * 2) * PxUnit) \div 255
    IN  [x |-> margin * PxUnit + i * (barW(width) + barGap * PxUnit),
         y |-> (height - margin) * PxUnit - h,
         w |-> barW(width),
         h |-> h]

\* the hover test of the bar loop: the last bar that holds the pointer, -1 if
\* none does or the pointer is not over the canvas
hoverOf(ls, data, width, height) ==
    LET hits == {i \in 0..(nBars - 1) :
                    \E b \in {barShape(i, data, width, height)} :
                        /\ ls.mouseX >= b.x /\ ls.mouseX <= b.x + b.w
                        /\ ls.mouseY >= b.y /\ ls.mouseY <= b.y + b.h}
    IN  IF ls.isHovering /\ hits # {}
        THEN CHOOSE i \in hits : \A j \in hits : j <= i
        ELSE -1

\* Math.max(70, Math.min(150, rect.w * 3)) * (0.95 + bassNow * 0.25)
lensRadius(w, bassNow) ==
    ((Max(70 * PxUnit, Min(150 * PxUnit, w * 3)) \div 100)
        * ((Frac(95, 100) + (bassNow * 25) \div 100) \div 100)) \div 100

\* a spring without damping: vel = vel + (target - pos) * k
springUndamped(vel, target, pos) == vel + towardZero((target - pos) * 6, 100)

\* a spring that pushes away from the target: vel = (vel - (target - pos) * k) * d
springRepel(vel, target, pos) ==
    towardZero((vel - towardZero((target - pos) * 6, 100)) * 7, 10)

\* const k = 0.06, d = 0.7; vel = (vel + (target - pos) * k) * d
spring(vel, target, pos) ==
    towardZero((vel + towardZero((target - pos) * 6, 100)) * 7, 10)

\* an easing that goes 115% of the way
easeOvershoot(alpha, target) == alpha + towardZero((target - alpha) * 115, 100)

\* state.alpha += ((shouldDrawLens ? 1 : 0) - state.alpha) * 0.15
ease(alpha, target) == alpha + towardZero((target - alpha) * 15, 100)

\* the lens part of renderCanvas: hover index, targets, springs and alpha
lensTick(ls, data, width, height) ==
    LET hover == hoverOf(ls, data, width, height)
        shouldDrawLens == ls.isHovering /\ hover >= 0
        rect == barShape(Max(hover, 0), data, width, height)
        targetX == IF shouldDrawLens THEN rect.x + rect.w \div 2 ELSE ls.targetX
        targetY == IF shouldDrawLens THEN ls.mouseY ELSE ls.targetY
        targetR == IF shouldDrawLens
                   THEN lensRadius(rect.w, normalized(avg(data, 2, 48)))
                   ELSE 0
        velX == spring(ls.velX, targetX, ls.posX)
        velY == spring(ls.velY, targetY, ls.posY)
        velR == spring(ls.velR, targetR, ls.posR)
    IN  [ls EXCEPT !.hoverIndex = hover,
                   !.targetX = targetX, !.targetY = targetY, !.targetR = targetR,
                   !.velX = velX, !.posX = ls.posX + velX,
                   !.velY = velY, !.posY = ls.posY + velY,
                   !.velR = velR, !.posR = ls.posR + velR,
                   !.alpha = ease(ls.alpha, IF shouldDrawLens THEN Scale ELSE 0)]

\* a pointer-move that resets the lens whether or not it was hovering
onMoveAlwaysReset(ls, x, y) ==
    [ls EXCEPT !.posX = x, !.posY = y, !.posR = 0,
               !.velX = 0, !.velY = 0, !.velR = 0,
               !.isHovering = TRUE, !.mouseX = x, !.mouseY = y]

\* onMove: if (!s.isHovering) { s.posX = x; s.posY = y; s.posR = 0;
\* s.velX = s.velY = s.velR = 0; } s.isHovering = true; s.mouseX = x; s.mouseY = y
onMove(ls, x, y) ==
    IF ~ls.isHovering
    THEN [ls EXCEPT !.posX = x, !.posY = y, !.posR = 0,
                    !.velX = 0, !.velY = 0, !.velR = 0,
                    !.isHovering = TRUE, !.mouseX = x, !.mouseY = y]
    ELSE [ls EXCEPT !.isHovering = TRUE, !.mouseX = x, !.mouseY = y]

\* onLeave: s.isHovering = false; s.hoverIndex = -1
onLeave(ls) == [ls EXCEPT !.isHovering = FALSE, !.hoverIndex = -1]

\* a click handler that tests isHovering instead of hoverIndex
onClickWhileHovering(ls) == IF ls.isHovering THEN 1 ELSE 0

\* const onClick = () => { if (lensState.current.hoverIndex !== -1) onEnterScene(); }
\* the number of onEnterScene calls the click makes
onClick(ls) == IF ls.hoverIndex # -1 THEN 1 ELSE 0

\* a spectrum whose every bin holds v
flatSpectrum(v) == [k \in 1..frequencyBinCount |-> v]

LensFrameNames == {"quiet", "flat", "loud"}

LensSpectrumOf ==
    [n \in LensFrameNames |->
        CASE n = "quiet" -> flatSpectrum(0)
          [] n = "flat"  -> flatSpectrum(200)
          [] n = "loud"  -> flatSpectrum(255)]

\* where the pointer may be, in pixels from the canvas's corner: on a bar, on
\* the same bar higher up, above the bars of the "flat" frame, in the margin
Pointers == {<<113, 400>>, <<115, 300>>, <<113, 100>>, <<20, 400>>}

\* client sizes of DataView's canvas explored
LensSizes == {<<800, 600>>, <<1200, 700>>}

\* what the last operation (op) did to the lens: the lens before it, the
\* pointer of the last pointer-move, the frame of the last tick and whether it
\* should draw the lens; fresh: a pointer-move has reset the lens and no tick
\* has run since; start: the position and radius the reset left; steady: the
\* ticks run since the reset with the targets they were given at the first of
\* them (0: none, or a target has changed); prevDist: the distances to the
\* target before the last tick; crossed: whether x, y, radius have passed
\* their target since the reset; frame: the constant signal of a scripted
\* run; events counts the operations
NoLensObs ==
    [op |-> "none", before |-> lensState, pointer |-> <<0, 0>>, should |-> FALSE,
     fresh |-> FALSE, start |-> <<0, 0, 0>>, steady |-> 0,
     prevDist |-> <<0, 0, 0>>, crossed |-> <<FALSE, FALSE, FALSE>>,
     frame |-> "none", events |-> 0,
     \* the clicks: onEnterScene calls so far, clicks made while hoverIndex was
     \* not -1, whether the last click called onEnterScene, and whether the
     \* pointer has left with no move since
     entered |-> 0, clicksOver |-> 0, invoked |-> FALSE, left |-> FALSE]

\* the targets and the positions of the lens: x, y, radius
lensTarget(ls) == <<ls.targetX, ls.targetY, ls.targetR>>
lensPos(ls) == <<ls.posX, ls.posY, ls.posR>>

\* the distances of the lens to its targets: x, y, radius
lensDist(ls) == [a \in 1..3 |-> Abs(lensTarget(ls)[a] - lensPos(ls)[a])]

\* the lens is on the other side of its target than the place it started from
lensOvershot(ls, start, a) ==
    \/ lensTarget(ls)[a] > start[a] /\ lensPos(ls)[a] > lensTarget(ls)[a]
    \/ lensTarget(ls)[a] < start[a] /\ lensPos(ls)[a] < lensTarget(ls)[a]

\* DataView is mounted: lens at its initial state, canvas laid out
LensMounted ==
    /\ PIdle /\ JAbsent /\ BAbsent /\ framePeriod = 0
    /\ FAbsent /\ HAbsent /\ SAbsent
    /\ particles = <<>> /\ eObs = NoParticleObs
    /\ canvas2D \in LensSizes
    /\ lens = lensState

\* const count = Math.floor(80 + mid * 150)
lensParticleCount(mid) == 80 + (mid * 150) \div Scale

\* renderCanvas with the frame f: the lens update, and, where the lens is
\* visible over the 2D rendering, the particles behind it
renderCanvas(f) ==
    \E ls \in {lensTick(lens, LensSpectrumOf[f], canvas2D[1], canvas2D[2])} :
       /\ lens' = ls
       /\ lObs' = [lObs EXCEPT
              !.op = "tick", !.before = lens,
              !.should = (ls.isHovering /\ ls.hoverIndex >= 0),
              !.fresh = FALSE,
              !.steady = IF lObs.fresh THEN 1
                         ELSE IF /\ lObs.steady > 0
                                 /\ <<ls.targetX, ls.targetY, ls.targetR>>
                                      = <<lens.targetX, lens.targetY, lens.targetR>>
                              THEN lObs.steady + 1
                              ELSE 0,
              !.prevDist = lensDist([lens EXCEPT !.targetX = ls.targetX,
                                                 !.targetY = ls.targetY,
                                                 !.targetR = ls.targetR]),
              !.crossed = [a \in 1..3 |->
                              \/ lensOvershot(ls, lObs.start, a)
                              \/ (~lObs.fresh /\ lObs.crossed[a])],
              !.events = @ + 1]
       /\ IF ~is3DMode /\ ls.alpha > Scale \div 100 /\ ls.posR > PxUnit
          THEN \E seed \in Seeds :
               \E count \in {lensParticleCount(
                                normalized(avg(LensSpectrumOf[f], 64, 256)))} :
               \E ensured \in {ensureParticles(particles, count, canvas2D[1],
                                               canvas2D[2], seed)} :
                  /\ particles' = renderEmotionScene(LensSpectrumOf[f], ensured,
                                      canvas2D[1], canvas2D[2],
                                      seed + 5 * Max(0, count - Len(particles)))
                  /\ eObs' = particleObserved("tick", count)
          ELSE UNCHANGED <<particles, eObs>>
       /\ UNCHANGED <<canvas2D, is3DMode, pVars, jVars, bVars, framePeriod, bFlow, host, sObs>>

\* a mousemove event at the pointer position pt
pointerMove(pt) ==
    /\ lens' = onMove(lens, pt[1] * PxUnit, pt[2] * PxUnit)
    /\ lObs' = [lObs EXCEPT
           !.op = "move", !.before = lens, !.pointer = pt,
           !.fresh = (~lens.isHovering) \/ @,
           !.start = IF ~lens.isHovering
                     THEN <<pt[1] * PxUnit, pt[2] * PxUnit, 0>> ELSE @,
           !.steady = IF ~lens.isHovering THEN 0 ELSE @,
           !.left = FALSE,
           !.events = @ + 1]
    /\ UNCHANGED <<eVars, is3DMode, pVars, jVars, bVars, framePeriod, bFlow, host, sObs>>

(***************************************************************************)
(* The lens under pointer events and frames in any order                   *)
(***************************************************************************)
MaxLensEvents == 4

InitLens ==
    /\ LensMounted
    /\ is3DMode \in BOOLEAN
    /\ lObs = NoLensObs

LensTick ==
    /\ lObs.events < MaxLensEvents
    /\ \E f \in LensFrameNames : renderCanvas(f)

LensMove ==
    /\ lObs.events < MaxLensEvents
    /\ \E pt \in Pointers : pointerMove(pt)

\* a mouseleave event
LensLeave ==
    /\ lObs.events < MaxLensEvents
    /\ lens.isHovering
    /\ lens' = onLeave(lens)
    /\ lObs' = [lObs EXCEPT !.op = "leave", !.before = lens, !.left = TRUE,
                            !.events = @ + 1]
    /\ UNCHANGED <<eVars, is3DMode, pVars, jVars, bVars, framePeriod, bFlow, host, sObs>>

SpecLens == InitLens /\ [][LensTick \/ LensMove \/ LensLeave]_vars

(***************************************************************************)
(* The lens settling: the pointer enters over a bar and stays, the signal  *)
(* is constant, frames follow                                              *)
(***************************************************************************)
SettleTicks == 80

InitSettle ==
    /\ LensMounted
    /\ is3DMode = TRUE
    /\ \E f \in LensFrameNames \ {"quiet"} : lObs = [NoLensObs EXCEPT !.frame = f]

SettleEnter ==
    /\ lObs.events = 0
    /\ \E pt \in Pointers : pointerMove(pt)

SettleTick ==
    /\ lObs.events >= 1
    /\ lObs.events <= SettleTicks
    /\ renderCanvas(lObs.frame)

SpecLensSettle == InitSettle /\ [][SettleEnter \/ SettleTick]_vars

\* ticks after which the lens has settled
SettleBy == 60

\* the distance below which the spring's force rounds to nothing
springResolution == 100 \div 6 + 1

\* the distance of x, y or radius from its target when the lens was reset
startDist(a) == Abs(lensTarget(lens)[a] - lObs.start[a])

\* C27: from a reset (velocity 0) and for as long as the targets stay what they
\* were at the first tick, each of x, y and radius stays within its initial
\* distance of the target, is never more than 2% of that distance beyond the
\* target, and from the 60th tick on is within 1% of it (and the resolution
\* of the arithmetic) of the target.
C27_SpringSettles ==
    lObs.steady >= 1 =>
        \A a \in 1..3 :
            /\ lensDist(lens)[a] <= startDist(a)
            /\ lensOvershot(lens, lObs.start, a) =>
                  lensDist(lens)[a] * 50 <= startDist(a)
            /\ lObs.steady >= SettleBy =>
                  lensDist(lens)[a] <= startDist(a) \div 100 + springResolution

\* the radius has grown from 0 past its target and come back to it
C27_Witness ==
    /\ lObs.steady >= SettleBy
    /\ lObs.crossed[3]
    /\ lens.targetR > 0 /\ lObs.start[3] = 0
    /\ lensDist(lens)[3] <= springResolution

\* C28 as stated: from a reset and with the targets constant, the distance of
\* x, y and radius to the target never increases from one tick to the next.
C28_MonotoneApproach ==
    lObs.steady >= 1 =>
        \A a \in 1..3 : lensDist(lens)[a] <= lObs.prevDist[a]

\* C28: from a reset and with the targets constant, the distance of x, y and
\* radius to the target does not increase from one tick to the next until the
\* position first passes the target.
C28_MonotoneUntilCrossing ==
    lObs.steady >= 1 =>
        \A a \in 1..3 :
            ~lObs.crossed[a] => lensDist(lens)[a] <= lObs.prevDist[a]

\* the radius, on its way from 0, has come closer to its target for ten ticks
C28_Witness ==
    /\ lObs.steady >= 10
    /\ ~lObs.crossed[3]
    /\ lens.targetR > 0 /\ lObs.start[3] = 0
    /\ lensDist(lens)[3] < lObs.prevDist[3]

\* the last pointer position in lens units
pointerAt == <<lObs.pointer[1] * PxUnit, lObs.pointer[2] * PxUnit>>

\* C29: a pointer-move that arrives while isHovering is false sets the
\* position to the pointer and the radius and the velocities to 0; a
\* pointer-move while hovering changes mouseX and mouseY only; a leave changes
\* neither position, radius nor velocity; and a tick changes each of posX,
\* posY, posR by exactly its updated velocity. Nothing else assigns them.
C29_OnlyFirstHoverSnaps ==
    /\ (lObs.op = "move" /\ ~lObs.before.isHovering) =>
          lens = [lObs.before EXCEPT !.posX = pointerAt[1], !.posY = pointerAt[2],
                                     !.posR = 0,
                                     !.velX = 0, !.velY = 0, !.velR = 0,
                                     !.isHovering = TRUE,
                                     !.mouseX = pointerAt[1], !.mouseY = pointerAt[2]]
    /\ (lObs.op = "move" /\ lObs.before.isHovering) =>
          lens = [lObs.before EXCEPT !.mouseX = pointerAt[1], !.mouseY = pointerAt[2]]
    /\ lObs.op = "leave" =>
          lens = [lObs.before EXCEPT !.isHovering = FALSE, !.hoverIndex = -1]
    /\ lObs.op = "tick" =>
          /\ lens.posX - lObs.before.posX = lens.velX
          /\ lens.posY - lObs.before.posY = lens.velY
          /\ lens.posR - lObs.before.posR = lens.velR
          /\ lens.velX = spring(lObs.before.velX, lens.targetX, lObs.before.posX)
          /\ lens.velY = spring(lObs.before.velY, lens.targetY, lObs.before.posY)
          /\ lens.velR = spring(lObs.before.velR, lens.targetR, lObs.before.posR)

\* the pointer moves to another place while the lens, hovering, is in motion
C29_Witness ==
    /\ lObs.op = "move" /\ lObs.before.isHovering
    /\ lObs.before.velR # 0 /\ lObs.before.posR > 0
    /\ lens.mouseY # lObs.before.mouseY
    /\ lens.posR = lObs.before.posR /\ lens.velR = lObs.before.velR

\* C30: alpha stays within [0, 1]; a tick moves it by 15% of the gap to its
\* target (to the resolution of the arithmetic), 1 when the pointer is over a
\* bar and 0 otherwise, toward the target and never onto or past it.
C30_AlphaEases ==
    lObs # <<>> =>
        /\ 0 <= lens.alpha /\ lens.alpha <= Scale
        /\ lObs.op = "tick" =>
              \E target \in {IF lObs.should THEN Scale ELSE 0} :
                 /\ lens.alpha - lObs.before.alpha
                      = towardZero((target - lObs.before.alpha) * 15, 100)
                 /\ target > lObs.before.alpha =>
                       (lObs.before.alpha <= lens.alpha /\ lens.alpha < target)
                 /\ target < lObs.before.alpha =>
                       (target < lens.alpha /\ lens.alpha <= lObs.before.alpha)
                 /\ target = lObs.before.alpha => lens.alpha = target

\* the lens fades out: a tick after the pointer has left a bar it hovered
C30_Witness ==
    /\ lObs # <<>>
    /\ lObs.op = "tick" /\ ~lObs.should
    /\ lObs.before.alpha > 0
    /\ lens.alpha < lObs.before.alpha /\ lens.alpha > 0

\* C39: every updateTempo call leaves lastBeatTime at its timestamp, whether
\* or not it recorded the interval, so the interval it measures is the gap
\* since the call before it and the one it records is that gap; the first
\* call measures and records nothing and changes lastBeatTime only.
C39_LastBeatAlwaysMoves ==
    tObs.op = "beat" =>
        /\ lastBeatTime = now
        /\ tObs.before.lastBeatTime > 0 =>
              /\ tObs.interval = now - tObs.before.lastBeatTime
              /\ tObs.interval \in TempoGaps
        /\ tObs.recorded =>
              beatIntervals[Len(beatIntervals)] = now - tObs.before.lastBeatTime
        /\ tObs.before.lastBeatTime = 0 =>
              /\ ~tObs.recorded /\ tObs.interval = -1
              /\ tempoNow = [tObs.before EXCEPT !.lastBeatTime = now]

\* an interval is recorded after an earlier call had its interval rejected
C39_Witness ==
    /\ tObs.op = "beat" /\ tObs.recorded
    /\ ticks >= 3
    /\ Len(tObs.accepted) < ticks - 1
    /\ lastBeatTime = now


(***************************************************************************)
(* JourneyScene's frames on an exhausted pool: a burst of spawnRipple      *)
(* calls fills the pool, then animate runs                                 *)
(***************************************************************************)
\* animation frames explored after bursts
MaxPoolTicks == 3

\* animate(), after a burst of one of the sizes of BurstSizes
PoolTick ==
    /\ ticks < MaxPoolTicks
    /\ rObs.sinceCull \in BurstSizes
    /\ \E n \in EventFrameNames, dt \in Dts : animate(JBandsOf[n], dt)
    /\ UNCHANGED <<framePeriod, eVars, lVars, bFlow, host, sObs, rampTick, pVars, bVars>>

SpecPoolTick == InitJourney /\ [][PoolSpawn \/ PoolTick]_vars

\* C38: a bass or mid beat on a frame whose pool is exhausted spawns no ripple
\* but still counts: the cooldown is the band's cooldown (at the tempo the
\* frame started with), and for a bass beat updateTempo has run on the tempo
\* state with the frame's timestamp.
C38_DroppedBeatStillCounts ==
    (rObs.op = "tick" /\ rObs.dropped) =>
        /\ fired \in {"bass", "mid"}
        /\ \A k \in 1..Len(live) : a_t0[live[k]] # now
        /\ cooldown > 0
        /\ fired = "bass" =>
              /\ cooldown = kickCooldown(bpmBefore)
              /\ lastBeatTime = now
              /\ tempoNow = updateTempo(tObs.before, now)
        /\ fired = "mid" =>
              /\ cooldown = otherCooldown(bpmBefore)
              /\ tempoNow = tObs.before

\* a second bass beat on an exhausted pool: the ripple is dropped and the
\* interval since the first beat is recorded
C38_Witness ==
    /\ rObs.op = "tick" /\ rObs.dropped /\ fired = "bass"
    /\ tObs.recorded
    /\ cooldown = kickCooldown(bpmBefore)

\* a mid beat on an exhausted pool
C38_WitnessMid ==
    /\ rObs.op = "tick" /\ rObs.dropped /\ fired = "mid"
    /\ cooldown = otherCooldown(bpmBefore)


(***************************************************************************)
(* The flow-field BelieverScene: smoothed bass and mid, and a detector     *)
(* with the threshold mean + 1.0 * std and a beat envelope that is set to  *)
(* 1 on a beat and released otherwise                                      *)
(***************************************************************************)
\* private refractoryMs = 120
flowRefractoryMs == 120

\* this.beatEnv *= this.release, release = 0.88
release(env) == (env * 88) \div 100

\* this.bassSmooth += (bass - this.bassSmooth) * s, s = 0.12
bandSmooth(old, value) == old + ((value - old) * 12) \div 100

\* a detector whose threshold test is not strict
exceedsMeanPlusStdOrEqual(hist, flux) ==
    LET g == gcdOfNums(hist, Len(hist))
        v == [k \in 1..Len(hist) |-> IF g = 0 THEN 0 ELSE hist[k].num \div g]
        f == IF g = 0 THEN 0 ELSE flux.num \div g
        n == IF Len(hist) = 0 THEN 1 ELSE Len(hist)
        S == sumBins(v, 1, Len(hist))
        SS == sumBins([k \in 1..Len(hist) |-> v[k] * v[k]], 1, Len(hist))
        a == n * f - S
        b == n * SS - S * S
    IN  a >= 0 /\ a * a >= b

\* flux > mean + 1.0 * std over the window hist (which already holds flux),
\* with variance = max(0, sq / n - mean * mean).  On the numerators divided by
\* their gcd, with n = length || 1, S the sum and SS the sum of squares:
\* mean = S/n, std = sqrt(n*SS - S*S)/n (n*SS - S*S is never negative), and
\*     flux > mean + std   iff   a > 0 and a * a > b
\* for a = n*flux - S and b = n*SS - S*S.
exceedsMeanPlusStd(hist, flux) ==
    LET g == gcdOfNums(hist, Len(hist))
        v == [k \in 1..Len(hist) |-> IF g = 0 THEN 0 ELSE hist[k].num \div g]
        f == IF g = 0 THEN 0 ELSE flux.num \div g
        n == IF Len(hist) = 0 THEN 1 ELSE Len(hist)
        S == sumBins(v, 1, Len(hist))
        SS == sumBins([k \in 1..Len(hist) |-> v[k] * v[k]], 1, Len(hist))
        a == n * f - S
        b == n * SS - S * S
    IN  a > 0 /\ a * a > b

\* the field initialisers, the constructor and init() at time t: the buffers
\* are zero-filled and lastTime is the time of init
flowScene(t) ==
    [lastTime |-> t, flowTime |-> 0, bassSmooth |-> 0, midSmooth |-> 0,
     prevSpectrum |-> [k \in 1..frequencyBinCount |-> 0],
     fluxHistory |-> <<>>, lastBeatTime |-> 0, beatEnv |-> 0,
     view |-> flowResize(1000, 800, 600),
     \* observations of the last frame
     ticks |-> 0, flux |-> Q(0, 1), isBeat |-> FALSE, prev |-> <<>>,
     data |-> <<>>, last |-> <<>>]

\* a frame that copies the spectrum into the previous-frame buffer before it
\* computes the flux
flowUpdateCopyFirst(fs, data, nowT) ==
    LET dt == Min(nowT - fs.lastTime, 100)
        bassSmooth == bandSmooth(fs.bassSmooth, normalized(avg(data, 0, 32)))
        midSmooth == bandSmooth(fs.midSmooth, normalized(avg(data, 40, 120)))
        flux == bandFlux(data, data, 2, Min(64, Len(data) - 1))
        hist == pushFlux(fs.fluxHistory, flux)
        isBeat == /\ exceedsMeanPlusStd(hist, flux)
                  /\ nowT - fs.lastBeatTime > flowRefractoryMs
        baseFlowSpeed == 10000 + bassSmooth \div 2 + midSmooth \div 4
    IN  [lastTime |-> nowT,
         flowTime |-> fs.flowTime + (dt * baseFlowSpeed) \div 1000,
         bassSmooth |-> bassSmooth, midSmooth |-> midSmooth,
         prevSpectrum |-> [k \in 1..Len(fs.prevSpectrum) |->
                              IF k <= Len(data) THEN data[k] ELSE fs.prevSpectrum[k]],
         fluxHistory |-> hist,
         lastBeatTime |-> IF isBeat THEN nowT ELSE fs.lastBeatTime,
         beatEnv |-> IF isBeat THEN Scale ELSE release(fs.beatEnv),
         view |-> fs.view,
         ticks |-> fs.ticks + 1, flux |-> flux, isBeat |-> isBeat,
         prev |-> fs.prevSpectrum, data |-> data, last |-> fs.data]

\* one frame: animate() and update(dt, time) with the analyser showing data,
\* at time nowT in ms; flowTime is in millionths
flowUpdate(fs, data, nowT) ==
    LET dt == Min(nowT - fs.lastTime, 100)
        bassSmooth == bandSmooth(fs.bassSmooth, normalized(avg(data, 0, 32)))
        midSmooth == bandSmooth(fs.midSmooth, normalized(avg(data, 40, 120)))
        flux == bandFlux(data, fs.prevSpectrum, 2, Min(64, Len(data) - 1))
        hist == pushFlux(fs.fluxHistory, flux)
        isBeat == /\ exceedsMeanPlusStd(hist, flux)
                  /\ nowT - fs.lastBeatTime > flowRefractoryMs
        baseFlowSpeed == 10000 + bassSmooth \div 2 + midSmooth \div 4
    IN  [lastTime |-> nowT,
         flowTime |-> fs.flowTime + (dt * baseFlowSpeed) \div 1000,
         bassSmooth |-> bassSmooth, midSmooth |-> midSmooth,
         prevSpectrum |-> [k \in 1..Len(fs.prevSpectrum) |->
                              IF k <= Len(data) THEN data[k] ELSE fs.prevSpectrum[k]],
         fluxHistory |-> hist,
         lastBeatTime |-> IF isBeat THEN nowT ELSE fs.lastBeatTime,
         beatEnv |-> IF isBeat THEN Scale ELSE release(fs.beatEnv),
         view |-> fs.view,
         ticks |-> fs.ticks + 1, flux |-> flux, isBeat |-> isBeat,
         prev |-> fs.prevSpectrum, data |-> data, last |-> fs.data]

InitFlow ==
    /\ PIdle /\ JAbsent /\ BAbsent /\ EAbsent /\ LAbsent /\ HAbsent /\ SAbsent
    /\ framePeriod \in BFramePeriods
    /\ \E t \in StartTimes : bFlow = flowScene(t)

\* frames explored
MaxFlowTicks == 4

FlowTick ==
    /\ bFlow # <<>>
    /\ bFlow.ticks < MaxFlowTicks
    /\ \E n \in BFrameNames :
       \E fs \in {flowUpdate(bFlow, BSpectrumOf[n], bFlow.lastTime + framePeriod)} :
          bFlow' = fs
    /\ UNCHANGED <<pVars, jVars, bVars, eVars, lVars, host, sObs, framePeriod>>

\* a frame of the intense-beat BelieverScene with any spectrum
FrameTick ==
    /\ prevSpectrum # <<>>
    /\ bTicks < MaxFlowTicks
    /\ \E n \in BFrameNames : believerUpdate(BSpectrumOf[n], framePeriod)
    /\ UNCHANGED <<framePeriod, eVars, lVars, bFlow, host, sObs, pVars, jVars>>

\* either BelieverScene under arbitrary frames
SpecFluxFrames == (InitBeliever \/ InitFlow) /\ [][FrameTick \/ FlowTick]_vars

\* the zero-filled buffer the constructors allocate
zeroSpectrum == [k \in 1..frequencyBinCount |-> 0]

\* C36: in both flux detectors the flux of a frame is taken against the
\* spectrum of the frame before (all zeros on the first frame): the
\* previous-frame buffer is read before it is overwritten, and after every
\* frame it equals the frame's spectrum bin for bin.
C36_FluxAgainstPreviousFrame ==
    /\ bTicks > 0 =>
          \E before \in {IF bTicks = 1 THEN zeroSpectrum ELSE bObs.last} :
             /\ bObs.prev = before
             /\ fluxLog[Len(fluxLog)] = bandFlux(bObs.data, before, 2, 64)
             /\ prevSpectrum = bObs.data
    /\ (bFlow # <<>> /\ bFlow.ticks > 0) =>
          \E before \in {IF bFlow.ticks = 1 THEN zeroSpectrum ELSE bFlow.last} :
             /\ bFlow.prev = before
             /\ bFlow.flux = bandFlux(bFlow.data, before, 2, 64)
             /\ bFlow.prevSpectrum = bFlow.data

\* the flow-field scene on a blast after a quiet frame: the flux is positive
\* and the buffer holds the blast
C36_Witness ==
    /\ bFlow # <<>> /\ bFlow.ticks >= 2
    /\ bFlow.last = BSpectrumOf["quiet"] /\ bFlow.data = BSpectrumOf["blast"]
    /\ bFlow.flux.num > 0
    /\ bFlow.prevSpectrum = BSpectrumOf["blast"]

\* the intense-beat scene on a blast after a kick
C36_WitnessIntense ==
    /\ bTicks >= 2
    /\ bObs.last = BSpectrumOf["kick"] /\ bObs.data = BSpectrumOf["blast"]
    /\ fluxLog[Len(fluxLog)].num > 0
    /\ prevSpectrum = BSpectrumOf["blast"]


(***************************************************************************)
(* The three detectors on a signal that is silent from the start           *)
(***************************************************************************)
\* frames of silence explored: more than the flux window holds
MaxSilentTicks == 46

InitSilence == InitJourney \/ InitBeliever \/ InitFlow

SilentJourneyTick ==
    /\ live # <<>> \/ pool # <<>>
    /\ ticks < MaxSilentTicks
    /\ \E dt \in Dts : animate(JBandsOf["silence"], dt)
    /\ UNCHANGED <<framePeriod, eVars, lVars, bFlow, host, sObs, rampTick, pVars, bVars>>

SilentBelieverTick ==
    /\ prevSpectrum # <<>>
    /\ bTicks < MaxSilentTicks
    /\ believerUpdate(BSpectrumOf["quiet"], framePeriod)
    /\ UNCHANGED <<framePeriod, eVars, lVars, bFlow, host, sObs, pVars, jVars>>

SilentFlowTick ==
    /\ bFlow # <<>>
    /\ bFlow.ticks < MaxSilentTicks
    /\ \E fs \in {flowUpdate(bFlow, BSpectrumOf["quiet"], bFlow.lastTime + framePeriod)} :
          bFlow' = fs
    /\ UNCHANGED <<pVars, jVars, bVars, eVars, lVars, host, sObs, framePeriod>>

SpecSilence ==
    InitSilence /\ [][SilentJourneyTick \/ SilentBelieverTick \/ SilentFlowTick]_vars

\* C40: on a signal that is all zeros from the start no detector fires.  In
\* JourneyScene no ripple is spawned, the cooldown is never set and the tempo
\* state is the initial one; in both BelieverScene detectors the flux of
\* every frame is 0 and the beat envelope stays 0.
C40_SilenceFiresNothing ==
    /\ ticks > 0 =>
          /\ fired = "none" /\ lastFire = NoFire
          /\ live = <<>> /\ Len(pool) = maxRipples
          /\ \A i \in 0..(maxRipples - 1) : a_t0[i] = t0Unset
          /\ cooldown = 0
          /\ beatIntervals = <<>> /\ lastBeatTime = 0
          /\ bpmEstimate = 12000 /\ bpmConfidence = 0
          /\ ~tObs.called
    /\ bTicks > 0 =>
          /\ ~bFired /\ bLastBeatTime = 0 /\ intenseBeatEnv = 0
          /\ \A k \in 1..Len(fluxLog) : fluxLog[k].num = 0
          /\ \A k \in 1..Len(fluxHistory) : fluxHistory[k].num = 0
    /\ bFlow # <<>> =>
          /\ ~bFlow.isBeat /\ bFlow.lastBeatTime = 0 /\ bFlow.beatEnv = 0
          /\ bFlow.flux.num = 0
          /\ \A k \in 1..Len(bFlow.fluxHistory) : bFlow.fluxHistory[k].num = 0

\* the flow-field scene after 44 silent frames: the window is full of zeros
C40_Witness ==
    /\ bFlow # <<>> /\ bFlow.ticks = 44
    /\ Len(bFlow.fluxHistory) = fluxWindow
    /\ bFlow.beatEnv = 0

\* JourneyScene after 44 silent frames
C40_WitnessJourney ==
    /\ ticks = 44 /\ fired = "none" /\ cooldown = 0 /\ live = <<>>

\* the intense-beat scene after 44 silent frames
C40_WitnessIntense ==
    /\ bTicks = 44 /\ Len(fluxHistory) = fluxWindow /\ intenseBeatEnv = 0


(***************************************************************************)
(* BelieverScene after a silence of any length: the first loud frame comes *)
(* at any tick, and a few arbitrary frames follow it                       *)
(***************************************************************************)
\* the latest tick at which the first loud frame may come
MaxIntro == 24

\* frames explored from the first loud frame on
SpikeTail == 2

\* the tick of the first frame with a positive flux, 0 if there is none yet
firstSpike == 
    IF \A k \in 1..Len(fluxLog) : fluxLog[k].num = 0 THEN 0
    ELSE CHOOSE k \in 1..Len(fluxLog) :
            fluxLog[k].num # 0 /\ \A j \in 1..(k - 1) : fluxLog[j].num = 0

IntroTick ==
    /\ IF firstSpike = 0 THEN bTicks < MaxIntro ELSE bTicks < firstSpike + SpikeTail - 1
    /\ \E n \in BFrameNames : believerUpdate(BSpectrumOf[n], framePeriod)
    /\ UNCHANGED <<framePeriod, eVars, lVars, bFlow, host, sObs, pVars, jVars>>

SpecIntro == InitBeliever /\ [][IntroTick]_vars

\* C37: the flux of a frame is in the window when mean and std are taken (it
\* is the window's newest entry), so the threshold mean + 4.5 * std is not
\* exceeded, and no intense beat fires, on a frame at which the window holds
\* fewer than 22 entries.
C37_NoIntenseBeatBefore22 ==
    bTicks > 0 =>
        /\ fluxHistory[Len(fluxHistory)] = fluxLog[Len(fluxLog)]
        /\ Len(fluxHistory) = Min(bTicks, fluxWindow)
        /\ (bFired \/ bObs.over) => Len(fluxHistory) >= 22

\* an intense beat on the 22nd frame, after 21 frames of silence
C37_Witness ==
    /\ bFired /\ bTicks = 22 /\ Len(fluxHistory) = 22
    /\ firstSpike = 22

\* a loud frame after 20 frames of silence, with bass over the floor and past
\* the refractory time, on which no beat fires
C37_WitnessTooEarly ==
    /\ bTicks = 21 /\ firstSpike = 21
    /\ ~bFired /\ bObs.bass /\ bObs.gap > refractoryMs


(***************************************************************************)
(* Resize events between the frames of a scene: JourneyScene, the two      *)
(* BelieverScenes and the 2D fallback scene of SceneView                   *)
(***************************************************************************)
\* frames explored per scene
MaxResizeFrames == 2

\* frames and resizes explored in the 2D fallback scene
MaxFallbackCalls == 3

\* the fields of JourneyScene that outlive a frame, but for the renderer's
\* size and pixel ratio
journeySnapshot ==
    [now |-> now, lastNow |-> lastNow,
     bassEma |-> bassEma, midEma |-> midEma, highEma |-> highEma,
     prevBass |-> prevBass, prevMid |-> prevMid, prevHigh |-> prevHigh,
     cooldown |-> cooldown, beatIntervals |-> beatIntervals,
     lastBeatTime |-> lastBeatTime, bpmEstimate |-> bpmEstimate,
     bpmConfidence |-> bpmConfidence, pool |-> pool, live |-> live,
     a_t0 |-> a_t0, a_dur |-> a_dur, a_rmax |-> a_rmax, a_center |-> a_center,
     a_col |-> a_col]

\* the same for the intense-beat BelieverScene
believerSnapshot ==
    [bNow |-> bNow, prevSpectrum |-> prevSpectrum, fluxHistory |-> fluxHistory,
     bLastBeatTime |-> bLastBeatTime, intenseBeatEnv |-> intenseBeatEnv]

\* and for the flow-field BelieverScene
flowSnapshot == [bFlow EXCEPT !.view = NoView]

delivered(op, scene, before) == [op |-> op, scene |-> scene, before |-> before]

JourneyFrame ==
    /\ view # NoView
    /\ ticks < MaxResizeFrames
    /\ \E n \in EventFrameNames, dt \in Dts : animate(JBandsOf[n], dt)
    /\ sObs' = delivered("tick", "journey", <<>>)
    /\ UNCHANGED <<framePeriod, eVars, lVars, bFlow, host, rampTick, pVars, bVars>>

\* JourneyScene.handleResize as the window's resize listener
JourneyResize ==
    /\ view # NoView
    /\ \E r \in PixelRatios, sz \in ClientSizes :
          view' = handleResize(r, sz[1], sz[2])
    /\ sObs' = delivered("resize", "journey", journeySnapshot)
    /\ UNCHANGED <<now, lastNow, bassEma, midEma, highEma, prevBass, prevMid,
                   prevHigh, cooldown, beatIntervals, lastBeatTime, bpmEstimate,
                   bpmConfidence, pool, live, a_t0, a_dur, a_rmax, a_center, a_col,
                   jObs, framePeriod, eVars, lVars, bFlow, host, pVars, bVars>>

BelieverFrame ==
    /\ bView # NoView
    /\ bTicks < MaxResizeFrames
    /\ \E n \in BFrameNames : believerUpdate(BSpectrumOf[n], framePeriod)
    /\ sObs' = delivered("tick", "believer", <<>>)
    /\ UNCHANGED <<framePeriod, eVars, lVars, bFlow, host, pVars, jVars>>

\* BelieverScene.handleResize as the window's resize listener
BelieverResize ==
    /\ bView # NoView
    /\ \E r \in PixelRatios, sz \in ClientSizes :
          bView' = believerResize(r, sz[1], sz[2])
    /\ sObs' = delivered("resize", "believer", believerSnapshot)
    /\ UNCHANGED <<bNow, prevSpectrum, fluxHistory, bLastBeatTime, intenseBeatEnv,
                   bObsVars, framePeriod, eVars, lVars, bFlow, host, pVars, jVars>>

FlowFrame ==
    /\ bFlow # <<>>
    /\ bFlow.ticks < MaxResizeFrames
    /\ \E n \in BFrameNames :
       \E fs \in {flowUpdate(bFlow, BSpectrumOf[n], bFlow.lastTime + framePeriod)} :
          bFlow' = fs
    /\ sObs' = delivered("tick", "flow", <<>>)
    /\ UNCHANGED <<pVars, jVars, bVars, eVars, lVars, host, framePeriod>>

\* the flow-field BelieverScene's handleResize as the window's resize listener
FlowResize ==
    /\ bFlow # <<>>
    /\ \E r \in PixelRatios, sz \in ClientSizes :
          bFlow' = [bFlow EXCEPT !.view = flowResize(r, sz[1], sz[2])]
    /\ sObs' = delivered("resize", "flow", flowSnapshot)
    /\ UNCHANGED <<pVars, jVars, bVars, eVars, lVars, host, framePeriod>>

\* render2DScene of the 2D fallback scene
FallbackFrame ==
    /\ canvas2D # <<0, 0>>
    /\ eObs.calls < MaxFallbackCalls
    /\ \E f \in Frame2DNames, seed \in Seeds :
       \E count \in {particleCount(normalized(avg(Spectrum2DOf[f], 64, 256)))} :
       \E ensured \in {ensureParticles(particles, count, canvas2D[1], canvas2D[2], seed)} :
          /\ particles' = renderEmotionScene(Spectrum2DOf[f], ensured,
                                             canvas2D[1], canvas2D[2],
                                             seed + 5 * Max(0, count - Len(particles)))
          /\ eObs' = particleObserved("tick", count)
    /\ sObs' = delivered("tick", "fallback", <<>>)
    /\ UNCHANGED <<canvas2D, pVars, jVars, bVars, lVars, framePeriod, bFlow, host>>

\* resize2D of the 2D fallback scene as the window's resize listener: it sets
\* the canvas's backing size from its client size
FallbackResize ==
    /\ canvas2D # <<0, 0>>
    /\ eObs.calls < MaxFallbackCalls
    /\ \E sz \in Canvas2DSizes : canvas2D' = sz
    /\ eObs' = particleObserved("resize", Len(particles))
    /\ sObs' = delivered("resize", "fallback", particles)
    /\ UNCHANGED <<particles, pVars, jVars, bVars, lVars, framePeriod, bFlow, host>>

InitResize == InitJourney \/ InitBeliever \/ InitFlow \/ InitParticles

SpecResize ==
    InitResize /\ [][JourneyFrame \/ JourneyResize \/ BelieverFrame \/ BelieverResize
                        \/ FlowFrame \/ FlowResize
                        \/ FallbackFrame \/ FallbackResize]_vars

C32_WitnessBeliever ==
    /\ sObs.op = "resize" /\ sObs.scene = "believer"
    /\ bTicks >= 1 /\ Len(fluxHistory) >= 1
    /\ prevSpectrum = BSpectrumOf["blast"]
    /\ bView = believerResize(3000, 400, 300)

\* the 2D fallback scene resized while it holds particles
C32_WitnessFallback ==
    /\ sObs.op = "resize" /\ sObs.scene = "fallback"
    /\ Len(particles) >= 140
    /\ canvas2D = <<300, 200>>


(***************************************************************************)
(* DataView's canvas under frames, pointer moves, leaves, clicks and       *)
(* window resizes in any order                                             *)
(***************************************************************************)
\* events explored
MaxClickEvents == 4

ClickFrame ==
    /\ lObs.events < MaxClickEvents
    /\ \E f \in LensFrameNames : renderCanvas(f)

ClickMove ==
    /\ lObs.events < MaxClickEvents
    /\ \E pt \in Pointers : pointerMove(pt)

\* a mouseleave event; the browser sends it whether or not a mousemove came
\* before
ClickLeave ==
    /\ lObs.events < MaxClickEvents
    /\ lens' = onLeave(lens)
    /\ lObs' = [lObs EXCEPT !.op = "leave", !.before = lens, !.left = TRUE,
                            !.events = @ + 1]
    /\ UNCHANGED <<eVars, is3DMode, pVars, jVars, bVars, framePeriod, bFlow, host, sObs>>

\* a click event on the canvas
LensClick ==
    /\ lObs.events < MaxClickEvents
    /\ lObs' = [lObs EXCEPT !.op = "click", !.before = lens,
                            !.entered = @ + onClick(lens),
                            !.clicksOver = @ + (IF lens.hoverIndex # -1 THEN 1 ELSE 0),
                            !.invoked = (onClick(lens) > 0),
                            !.events = @ + 1]
    /\ UNCHANGED <<lens, eVars, is3DMode, pVars, jVars, bVars, framePeriod, bFlow, host, sObs>>

\* a resize event of the window: resize() sets the canvas's backing size from
\* its client size
LensResize ==
    /\ lObs.events < MaxClickEvents
    /\ \E sz \in LensSizes : canvas2D' = sz
    /\ lObs' = [lObs EXCEPT !.op = "resize", !.before = lens, !.events = @ + 1]
    /\ UNCHANGED <<lens, particles, eObs, is3DMode, pVars, jVars, bVars, framePeriod,
                   bFlow, host, sObs>>

\* DataView mounted over a WebGL scene (is3DMode): the frames draw no particles
InitClick ==
    /\ LensMounted
    /\ is3DMode = TRUE
    /\ lObs = NoLensObs

SpecLensClick ==
    InitClick /\ [][ClickFrame \/ ClickMove \/ ClickLeave \/ LensClick \/ LensResize]_vars

\* C33: onEnterScene is called only by a click made while hoverIndex is not
\* -1: the calls so far are the clicks made over a bar, a frame, a pointer
\* move, a leave or a resize adds none, and a click after a leave with no
\* move in between calls nothing.
C33_EnterOnlyByClickOverBar ==
    /\ lObs.entered = lObs.clicksOver
    /\ (lObs.op = "click" /\ lObs.invoked) =>
          /\ lObs.before.hoverIndex # -1
          /\ lObs.before.isHovering
          /\ ~lObs.left
    /\ (lObs.op = "click" /\ lObs.left) => ~lObs.invoked
    /\ lObs.left => lens.hoverIndex = -1

\* a click over a bar entered the scene
C33_Witness ==
    /\ lObs.op = "click" /\ lObs.invoked /\ lObs.entered = 1
    /\ lObs.before.hoverIndex # -1

\* a click after the pointer left a bar it hovered over: nothing is entered
C33_WitnessAfterLeave ==
    /\ lObs.op = "click" /\ lObs.left /\ ~lObs.invoked /\ lObs.entered = 0
    /\ lObs.events = 4

\* a click right after the pointer moved onto a bar, before the next frame
C33_WitnessBeforeFrame ==
    /\ lObs.op = "click" /\ ~lObs.invoked
    /\ lObs.before.isHovering /\ lObs.before.hoverIndex = -1


(***************************************************************************)
(* Scene lifecycle.  host is the browser as the scenes see it: the pending *)
(* requestAnimationFrame requests, the window's resize listeners, and the  *)
(* scene instances created so far with their animationFrameId.  A scene's  *)
(* frame is abstracted to a counter; late counts the callbacks a scene     *)
(* received after its destroy() had returned.                              *)
(***************************************************************************)
\* the scene variants: ThreeScene, JourneyScene, BelieverScene (three classes
\* with init and destroy) and the 2D fallback closure of SceneView
Kinds == {"three", "journey", "believer", "fallback"}

\* a scene after its constructor: private animationFrameId = 0
newScene(kind) ==
    [kind |-> kind, phase |-> "constructed", animationFrameId |-> 0,
     contexts |-> 0, ticks |-> 0, resizes |-> 0, destroys |-> 0, late |-> 0]

NoHost ==
    [requests |-> {}, nextId |-> 1, listeners |-> {}, scenes |-> <<>>,
     \* SceneView: mounted, visualizerRef.current (0: null), the effect's
     \* dependencies and whether React holds a cleanup of the last effect
     mounted |-> FALSE, visualizerRef |-> 0, deps |-> <<"none", FALSE>>,
     cleanup |-> FALSE,
     \* observations: the last operation, whether it threw, and the frames and
     \* resize events delivered
     \* overlap: the most scenes found running when an init() was called;
     \* crashed: an effect threw and React removed the tree
     op |-> "none", thrown |-> FALSE, frames |-> 0, resizeEvents |-> 0,
     owner |-> "none", overlap |-> 0, crashed |-> FALSE]

lateIf(sc) == IF sc.phase = "destroyed" THEN 1 ELSE 0

\* an animate that keeps the id of its first request only
sceneAnimateFirstId(h, i) ==
    [h EXCEPT !.requests = @ \cup {[id |-> h.nextId, inst |-> i]},
              !.nextId = @ + 1,
              !.scenes[i] = [@ EXCEPT !.animationFrameId = IF @ = 0 THEN h.nextId ELSE @,
                                      !.ticks = @ + 1,
                                      !.late = @ + lateIf(h.scenes[i])]]

\* animate of scene i: this.animationFrameId = requestAnimationFrame(this.animate)
\* comes first, then the frame
sceneAnimate(h, i) ==
    [h EXCEPT !.requests = @ \cup {[id |-> h.nextId, inst |-> i]},
              !.nextId = @ + 1,
              !.scenes[i] = [@ EXCEPT !.animationFrameId = h.nextId,
                                      !.ticks = @ + 1,
                                      !.late = @ + lateIf(h.scenes[i])]]

\* the resize listener of scene i
sceneResized(h, i) ==
    [h EXCEPT !.scenes[i] = [@ EXCEPT !.resizes = @ + 1,
                                      !.late = @ + lateIf(h.scenes[i])]]

\* an init that registers the resize listener before it sets up the renderer
sceneInitListenerFirst(h, i, contextOk) ==
    IF h.scenes[i].kind # "fallback" /\ ~contextOk
    THEN [h EXCEPT !.listeners = @ \cup {i},
                   !.scenes[i] = [@ EXCEPT !.phase = "failed", !.contexts = @ + 1],
                   !.thrown = TRUE]
    ELSE sceneAnimate([h EXCEPT !.listeners = @ \cup {i},
                                !.scenes[i] = [@ EXCEPT !.phase = "running",
                                                        !.contexts = @ + 1],
                                !.thrown = FALSE], i)

\* init() of scene i: the setup methods construct the WebGLRenderer first, and
\* the constructor throws when no context can be had (contextOk FALSE); nothing
\* in init catches it.  Then handleResize(), addEventListener('resize'),
\* animate().  The 2D fallback has no init: resize2D(), addEventListener,
\* render2DScene(), and a missing 2D context throws nothing.
sceneInit(h, i, contextOk) ==
    IF h.scenes[i].kind # "fallback" /\ ~contextOk
    THEN [h EXCEPT !.scenes[i] = [@ EXCEPT !.phase = "failed", !.contexts = @ + 1],
                   !.thrown = TRUE]
    ELSE sceneAnimate([h EXCEPT !.listeners = @ \cup {i},
                                !.scenes[i] = [@ EXCEPT !.phase = "running",
                                                        !.contexts = @ + 1],
                                !.thrown = FALSE], i)

\* destroy() of scene i: if (animationFrameId) cancelAnimationFrame(animationFrameId),
\* removeEventListener('resize', handleResize), and the dispose calls, each
\* behind ?. so that a scene that was never set up raises nothing
sceneDestroy(h, i) ==
    [h EXCEPT !.requests = {r \in @ : ~(/\ h.scenes[i].animationFrameId # 0
                                        /\ r.id = h.scenes[i].animationFrameId)},
              !.listeners = @ \ {i},
              !.scenes[i] = [@ EXCEPT !.phase = "destroyed", !.destroys = @ + 1],
              !.thrown = FALSE]

\* the browser runs a pending animation-frame request
hostFrame(h, r) ==
    sceneAnimate([h EXCEPT !.requests = @ \ {r}, !.frames = @ + 1], r.inst)

RECURSIVE resizedAll(_, _)
resizedAll(h, todo) ==
    IF todo = {} THEN h
    ELSE LET i == CHOOSE j \in todo : TRUE
         IN  resizedAll(sceneResized(h, i), todo \ {i})

\* the window fires resize: every registered listener runs
hostResize(h) == resizedAll([h EXCEPT !.resizeEvents = @ + 1], h.listeners)

\* frames and resize events explored, and destroy calls per scene
MaxHostFrames == 3
MaxHostResizes == 1
MaxDestroys == 2

HostFrame ==
    /\ host # <<>>
    /\ host.frames < MaxHostFrames
    /\ \E r \in host.requests : host' = [hostFrame(host, r) EXCEPT !.op = "frame"]
    /\ UNCHANGED <<pVars, jVars, bVars, eVars, lVars, bFlow, sObs, framePeriod>>

HostResize ==
    /\ host # <<>>
    /\ host.resizeEvents < MaxHostResizes
    /\ host' = [hostResize(host) EXCEPT !.op = "resize"]
    /\ UNCHANGED <<pVars, jVars, bVars, eVars, lVars, bFlow, sObs, framePeriod>>

(***************************************************************************)
(* One scene of any variant under a caller that may call destroy() at any  *)
(* time, also before init() and more than once.  init() is called at most  *)
(* once, and not after destroy(): the callers construct a new scene for    *)
(* every init.                                                             *)
(***************************************************************************)
InitLifecycle ==
    /\ PIdle /\ JAbsent /\ BAbsent /\ EAbsent /\ LAbsent /\ FAbsent /\ SAbsent
    /\ framePeriod = 0
    /\ \E k \in Kinds : host = [NoHost EXCEPT !.scenes = <<newScene(k)>>]

LifeInit ==
    /\ host # <<>> /\ ~host.mounted
    /\ host.scenes[1].phase = "constructed"
    /\ \E ok \in BOOLEAN : host' = [sceneInit(host, 1, ok) EXCEPT !.op = "init"]
    /\ UNCHANGED <<pVars, jVars, bVars, eVars, lVars, bFlow, sObs, framePeriod>>

LifeDestroy ==
    /\ host # <<>> /\ ~host.mounted
    /\ host.scenes[1].destroys < MaxDestroys
    \* the 2D fallback's destroy closure exists only once render2DScene has run
    /\ host.scenes[1].kind = "fallback" => host.scenes[1].phase # "constructed"
    /\ host' = [sceneDestroy(host, 1) EXCEPT !.op = "destroy"]
    /\ UNCHANGED <<pVars, jVars, bVars, eVars, lVars, bFlow, sObs, framePeriod>>

SpecLifecycle ==
    InitLifecycle /\ [][LifeInit \/ LifeDestroy \/ HostFrame \/ HostResize]_vars

\* C31: once destroy() has returned, whether it was called before init, right
\* after init or between two frames, the scene's animate and its resize
\* handler are not called again: nothing of the scene is pending or
\* registered, and no callback is ever delivered to a destroyed scene.  A
\* second destroy raises nothing.
C31_DestroyStopsCallbacks ==
    host # <<>> =>
        \A i \in 1..Len(host.scenes) :
            /\ host.scenes[i].late = 0
            /\ host.scenes[i].phase = "destroyed" =>
                  /\ \A r \in host.requests : r.inst # i
                  /\ i \notin host.listeners
            /\ host.op = "destroy" => ~host.thrown

\* a scene destroyed a second time after frames and a resize, with a frame
\* budget left: the host has nothing to deliver
C31_Witness ==
    /\ host # <<>> /\ Len(host.scenes) = 1
    /\ host.op = "destroy" /\ host.scenes[1].destroys = 2
    /\ host.scenes[1].ticks >= 3 /\ host.scenes[1].resizes >= 1
    /\ host.frames < MaxHostFrames
    /\ host.requests = {} /\ host.listeners = {}

\* a scene destroyed before init
C31_WitnessBeforeInit ==
    /\ host # <<>> /\ Len(host.scenes) = 1
    /\ host.scenes[1].phase = "destroyed" /\ host.scenes[1].ticks = 0
    /\ host.scenes[1].contexts = 0

\* C34: when the WebGLRenderer cannot get a context, init() throws to its
\* caller, after one attempt, and the scene has no animation-frame request
\* and no resize listener and has drawn no frame.
C34_ContextFailureSurfaces ==
    host # <<>> =>
        \A i \in 1..Len(host.scenes) :
            host.scenes[i].phase = "failed" =>
                /\ host.scenes[i].kind # "fallback"
                /\ host.scenes[i].contexts = 1
                /\ host.scenes[i].ticks = 0 /\ host.scenes[i].resizes = 0
                /\ host.scenes[i].animationFrameId = 0
                /\ \A r \in host.requests : r.inst # i
                /\ i \notin host.listeners
                /\ host.op = "init" => host.thrown

\* a failed init, and a resize event that reached nobody
C34_Witness ==
    /\ host # <<>> /\ Len(host.scenes) >= 1
    /\ host.scenes[1].phase = "failed" /\ host.op = "resize"
    /\ host.resizeEvents >= 1 /\ host.scenes[1].resizes = 0


(***************************************************************************)
(* The views that own a scene.  SceneView keeps the running visualizer in  *)
(* visualizerRef and DataView its 3D backdrop in webglSceneRef; both are   *)
(* host.visualizerRef here, since App shows one view at a time.  An effect *)
(* runs at mount and on every change of its dependencies, after the        *)
(* cleanup the previous run returned; the cleanup also runs at unmount.    *)
(***************************************************************************)
Tracks == {"too-sweet", "journey", "believer", "other"}

\* analyser objects: 0 is null
Analysers == 0..2

\* which scene a view makes for a track
kindOf(owner, track) ==
    CASE track = "too-sweet" -> "three"
      [] track = "journey" -> "journey"
      [] track = "believer" /\ owner = "scene" -> "believer"
      [] OTHER -> "fallback"

\* DataView shows a 3D backdrop for two tracks only (App: is3DMode)
is3D(track) == track \in {"too-sweet", "journey"}

running(h) == {i \in 1..Len(h.scenes) : h.scenes[i].phase = "running"}

\* if (ref.current) ref.current.destroy(), and ref.current = null where the
\* code has it
destroyRef(h, nulls) ==
    IF h.visualizerRef = 0 THEN h
    ELSE [sceneDestroy(h, h.visualizerRef) EXCEPT
              !.visualizerRef = IF nulls THEN 0 ELSE @]

\* a cleanup that drops the reference and leaves the scene running
viewCleanupForget(h) == [h EXCEPT !.visualizerRef = 0, !.cleanup = FALSE]

\* the function both effects return
viewCleanup(h) == [destroyRef(h, TRUE) EXCEPT !.cleanup = FALSE]

\* new X(canvas, analyser, track); x.init(); ref.current = x.  A throwing
\* init leaves the effect before the reference is set and before a cleanup
\* is returned.
createScene(h, kind, ok) ==
    LET i  == Len(h.scenes) + 1
        h1 == [h EXCEPT !.scenes = Append(@, newScene(kind)),
                        !.overlap = IF Cardinality(running(h)) > @
                                    THEN Cardinality(running(h)) ELSE @]
        h2 == sceneInit(h1, i, ok)
    IN  IF h2.thrown
        THEN [h2 EXCEPT !.cleanup = FALSE, !.crashed = TRUE, !.mounted = FALSE]
        ELSE [h2 EXCEPT !.visualizerRef = i, !.cleanup = TRUE]

\* SceneView's effect: nothing without an analyser, and then no cleanup either
sceneViewEffect(h, track, analyser, ok) ==
    IF analyser = 0 THEN [h EXCEPT !.cleanup = FALSE, !.thrown = FALSE]
    ELSE createScene(destroyRef(h, TRUE), kindOf("scene", track), ok)

\* DataView's effect: a scene in 3D mode with an analyser, a cleanup always
dataViewEffect(h, track, analyser, ok) ==
    IF is3D(track) /\ analyser # 0
    THEN createScene(destroyRef(h, FALSE), kindOf("data", track), ok)
    ELSE [h EXCEPT !.cleanup = TRUE, !.thrown = FALSE]

viewEffect(h, owner, track, analyser, ok) ==
    IF owner = "scene" THEN sceneViewEffect(h, track, analyser, ok)
    ELSE dataViewEffect(h, track, analyser, ok)

\* scenes constructed in one run
MaxInstances == 2

InitSceneView ==
    /\ PIdle /\ JAbsent /\ BAbsent /\ EAbsent /\ LAbsent /\ FAbsent /\ SAbsent
    /\ framePeriod = 0
    /\ host = NoHost

\* App shows the view: the effect runs for the first time
Mount ==
    /\ host # <<>> /\ ~host.mounted /\ ~host.crashed
    /\ Len(host.scenes) = 0 \/ host.owner # "none"
    /\ Len(host.scenes) < MaxInstances
    /\ \E owner \in {"scene", "data"}, track \in Tracks, a \in Analysers, ok \in BOOLEAN :
          host' = [viewEffect([host EXCEPT !.mounted = TRUE, !.owner = owner,
                                           !.deps = <<track, a>>],
                              owner, track, a, ok)
                   EXCEPT !.op = "mount"]
    /\ UNCHANGED <<pVars, jVars, bVars, eVars, lVars, bFlow, sObs, framePeriod>>

\* the track or the analyser changes: the cleanup held, then the effect
DepsChange ==
    /\ host # <<>> /\ host.mounted
    /\ Len(host.scenes) < MaxInstances
    /\ \E track \in Tracks, a \in Analysers, ok \in BOOLEAN :
          /\ <<track, a>> # host.deps
          /\ LET h0 == IF host.cleanup THEN viewCleanup(host) ELSE host
             IN  host' = [viewEffect([h0 EXCEPT !.deps = <<track, a>>],
                                     host.owner, track, a, ok)
                          EXCEPT !.op = "deps"]
    /\ UNCHANGED <<pVars, jVars, bVars, eVars, lVars, bFlow, sObs, framePeriod>>

\* App leaves the view: the cleanup held runs
Unmount ==
    /\ host # <<>> /\ host.mounted
    /\ LET h0 == IF host.cleanup THEN viewCleanup(host) ELSE host
       IN  host' = [h0 EXCEPT !.mounted = FALSE, !.op = "unmount", !.thrown = FALSE]
    /\ UNCHANGED <<pVars, jVars, bVars, eVars, lVars, bFlow, sObs, framePeriod>>

SpecSceneView ==
    InitSceneView /\ [][Mount \/ DepsChange \/ Unmount \/ HostFrame \/ HostResize]_vars

\* C35: across mounts, track changes, analyser changes and unmounts at most
\* one visualizer has an animation-frame request: the previous one is
\* destroyed before the next is initialised, unmount leaves every
\* initialised visualizer destroyed, and no destroyed visualizer ticks again.
C35_OneVisualizerAtATime ==
    (host # <<>> /\ host.owner # "none") =>
        /\ Cardinality(host.requests) <= 1
        /\ Cardinality(running(host)) <= 1
        /\ host.overlap = 0
        /\ \A r \in host.requests : r.inst = host.visualizerRef
        /\ host.listeners \subseteq running(host)
        /\ running(host) \subseteq {host.visualizerRef}
        /\ \A i \in 1..Len(host.scenes) : host.scenes[i].late = 0
        /\ ~host.mounted => (host.requests = {} /\ host.listeners = {}
                             /\ running(host) = {})

\* a track change in the scene view: the second visualizer, of another
\* kind, ticking after the first had ticked and was destroyed
C35_Witness ==
    /\ host # <<>> /\ host.owner = "scene" /\ host.mounted
    /\ Len(host.scenes) = 2 /\ host.visualizerRef = 2
    /\ \A i \in 1..2 : host.scenes[i].ticks >= 2
    /\ host.scenes[1].phase = "destroyed"
    /\ host.scenes[1].kind # host.scenes[2].kind
    /\ host.frames < MaxHostFrames

\* an analyser change: the same track on a new analyser
C35_WitnessAnalyser ==
    /\ host # <<>> /\ host.owner = "scene" /\ host.mounted
    /\ Len(host.scenes) = 2 /\ host.visualizerRef = 2
    /\ \A i \in 1..2 : host.scenes[i].ticks >= 2
    /\ host.scenes[1].phase = "destroyed"
    /\ host.scenes[1].kind = "believer" /\ host.scenes[2].kind = "believer"

\* the data view replacing its 3D backdrop
C35_WitnessDataView ==
    /\ host # <<>> /\ host.owner = "data" /\ host.mounted
    /\ Len(host.scenes) = 2 /\ host.visualizerRef = 2
    /\ host.scenes[1].phase = "destroyed" /\ host.scenes[2].ticks >= 2

\* unmounted with an initialised visualizer destroyed and frames left
C35_WitnessUnmounted ==
    /\ host # <<>> /\ host.owner = "scene" /\ ~host.mounted /\ ~host.crashed
    /\ Len(host.scenes) >= 1 /\ host.scenes[1].ticks >= 2
    /\ host.frames < MaxHostFrames

====
